---- MODULE Spec2Model ----
(***************************************************************************)
(* SigmaPay: model of the payment verification backend                     *)
(* (POST /api/payments/verify) - request validation, ERG/NanoErg unit      *)
(* conversion, the Ergo Explorer fetch and the payment-matching decision.  *)
(***************************************************************************)
EXTENDS Integers, Sequences, FiniteSets, TLC

\* F applied to the value of v, which is evaluated first.
Eval(v, F(_)) == CHOOSE r \in {F(x) : x \in {v}} : TRUE

(***************************************************************************)
(* Arbitrary-precision naturals.  JavaScript numbers are IEEE-754 doubles  *)
(* (53-bit significand) and BigInt is unbounded, so both are modelled over *)
(* little-endian sequences of limbs in base 2^15.  <<>> is zero and the    *)
(* most significant limb of a normalised value is non-zero.                *)
(***************************************************************************)
Base == 32768

LimbBits == 15

Pow2(n) == 2 ^ n

\* a without its most significant zero limbs
BigNorm(a) ==
    IF \A i \in 1..Len(a) : a[i] = 0 THEN <<>>
    ELSE SubSeq(a, 1, CHOOSE i \in 1..Len(a) : a[i] # 0 /\ \A j \in (i + 1)..Len(a) : a[j] = 0)

RECURSIVE BigFromInt(_)
BigFromInt(n) == IF n = 0 THEN <<>> ELSE <<n % Base>> \o BigFromInt(n \div Base)

\* Limb i of a, zero above its length.
BigLimb(a, i) == IF i <= Len(a) THEN a[i] ELSE 0

\* a + b: limb by limb, the carry into limb i being generated by a lower
\* limb pair and propagated by every pair in between.
BigAddCarry(a, b, i) ==
    IF \E j \in 1..(i - 1) :
           /\ BigLimb(a, j) + BigLimb(b, j) >= Base
           /\ \A k \in (j + 1)..(i - 1) : BigLimb(a, k) + BigLimb(b, k) = Base - 1
    THEN 1 ELSE 0

BigAddLimbs(a, b, n) ==
    [i \in 1..n |-> (BigLimb(a, i) + BigLimb(b, i) + BigAddCarry(a, b, i)) % Base]
    \o (IF BigAddCarry(a, b, n + 1) = 1 THEN <<1>> ELSE <<>>)

BigAdd(a, b) == BigAddLimbs(a, b, IF Len(a) >= Len(b) THEN Len(a) ELSE Len(b))

\* a * c for a single limb c: the low halves of the limb products plus
\* their high halves one limb up.
BigMulSmall(a, c) ==
    BigNorm(BigAdd([i \in 1..Len(a) |-> (a[i] * c) % Base],
                   <<0>> \o [i \in 1..Len(a) |-> (a[i] * c) \div Base]))

RECURSIVE BigMul(_, _)
BigMul(a, b) ==
    IF b = <<>> \/ a = <<>> THEN <<>>
    ELSE Eval(BigMul(a, Tail(b)),
              LAMBDA high : BigAdd(BigMulSmall(a, Head(b)),
                                   IF high = <<>> THEN <<>> ELSE <<0>> \o high))

\* Comparison: -1, 0 or 1 (both arguments normalised), decided by the most
\* significant limb in which they differ.
BigCmpAt(a, b, i) == IF a[i] < b[i] THEN -1 ELSE 1

BigCmp(a, b) ==
    IF Len(a) < Len(b) THEN -1
    ELSE IF Len(a) > Len(b) THEN 1
    ELSE IF a = b THEN 0
    ELSE BigCmpAt(a, b, CHOOSE i \in 1..Len(a) :
                            a[i] # b[i] /\ \A j \in (i + 1)..Len(a) : a[j] = b[j])

BigLess(a, b) == BigCmp(a, b) = -1

\* a - b for a >= b: limb by limb, the borrow from limb i being generated by
\* a lower limb pair and propagated by every equal pair in between.
BigSubBorrow(a, b, i) ==
    IF \E j \in 1..(i - 1) :
           /\ a[j] < BigLimb(b, j)
           /\ \A k \in (j + 1)..(i - 1) : a[k] = BigLimb(b, k)
    THEN 1 ELSE 0

BigSub(a, b) ==
    BigNorm([i \in 1..Len(a) |-> (a[i] - BigLimb(b, i) - BigSubBorrow(a, b, i) + Base) % Base])

\* The number of bits of a limb n
SmallBitLen(n) == CHOOSE k \in 0..LimbBits : n < 2 ^ k /\ (k = 0 \/ 2 ^ (k - 1) <= n)

BigBitLen(a) == IF a = <<>> THEN 0 ELSE LimbBits * (Len(a) - 1) + SmallBitLen(a[Len(a)])

BigIsOdd(a) == a # <<>> /\ a[1] % 2 = 1

BigShl(a, s) ==
    IF a = <<>> THEN <<>>
    ELSE [i \in 1..(s \div LimbBits) |-> 0] \o BigMulSmall(a, Pow2(s % LimbBits))

\* floor(a / 2^s), with sticky = some discarded bit was set: the limbs below
\* limb k + 1 are dropped and each limb kept takes its low bits from the
\* limb above it.
BigShrLimbs(a, k, t) ==
    [q      |-> BigNorm([i \in 1..(Len(a) - k) |->
                            (a[i + k] \div Pow2(t))
                            + (BigLimb(a, i + k + 1) % Pow2(t)) * Pow2(LimbBits - t)]),
     sticky |-> \/ BigLimb(a, k + 1) % Pow2(t) # 0
                \/ \E i \in 1..k : i <= Len(a) /\ a[i] # 0]

BigShr(a, s) == BigShrLimbs(a, s \div LimbBits, s % LimbBits)

\* The largest q with q * d <= r, for r < d * Base and a divisor d whose
\* most significant limb is at least Base / 2: the quotient of the leading
\* limbs exceeds q by at most two.
QuotEstimate(r, top) == IF top >= Base THEN Base - 1 ELSE top

QuotDigitFrom(r, d, est) ==
    est - Cardinality({k \in 0..1 : k <= est /\ BigCmp(BigMulSmall(d, est - k), r) > 0})

QuotDigit(r, d) ==
    QuotDigitFrom(r, d, QuotEstimate(r, (BigLimb(r, Len(d) + 1) * Base + BigLimb(r, Len(d)))
                                        \div d[Len(d)]))

\* Long division, one limb at a time from the most significant limb:
\* quotient and remainder of the limbs i..Len(a) of a by d; the Len(d) - 1
\* most significant limbs of a are less than d.
BigDivModDigit(d, q, r2, qd) == [q |-> <<qd>> \o q, r |-> BigSub(r2, BigMulSmall(d, qd))]

BigDivModLimb(d, q, r2) == BigDivModDigit(d, q, r2, QuotDigit(r2, d))

RECURSIVE BigDivModFrom(_, _, _)
BigDivModFrom(a, d, i) ==
    IF i > Len(a) - Len(d) + 1 THEN [q |-> <<>>, r |-> SubSeq(a, i, Len(a))]
    ELSE Eval(BigDivModFrom(a, d, i + 1),
              LAMBDA up : BigDivModLimb(d, up.q, BigNorm(<<a[i]>> \o up.r)))

\* Quotient and remainder of a by d, d # 0: both are scaled by 2^sh to bring
\* the most significant limb of the divisor to Base / 2 or more, which
\* leaves the quotient unchanged and scales the remainder.
BigDivModResult(res, sh) == [q |-> BigNorm(res.q), r |-> BigShr(res.r, sh).q]

BigDivModScaled(a, d, sh) ==
    IF Len(a) < Len(d) THEN [q |-> <<>>, r |-> BigShr(a, sh).q]
    ELSE BigDivModResult(BigDivModFrom(a, d, 1), sh)

BigDivModBy(a, d, sh) == BigDivModScaled(BigShl(a, sh), BigShl(d, sh), sh)

BigDivMod(a, d) == BigDivModBy(a, d, LimbBits - SmallBitLen(d[Len(d)]))

\* 10^k
RECURSIVE BigPow10(_)
BigPow10(k) ==
    IF k <= 9 THEN BigFromInt(10 ^ k) ELSE BigMul(BigPow10(k - 9), BigFromInt(10 ^ 9))

\* The decimal digits of a, most significant first (<<>> for zero), taken
\* four at a time: group j is (a / 10000^j) mod 10000.
DigitGroup == 10000

GroupDigits(n) == <<n \div 1000, (n \div 100) % 10, (n \div 10) % 10, n % 10>>

BigGroup(a, j) ==
    BigLimb(BigDivMod(BigDivMod(a, BigPow10(4 * j)).q, <<DigitGroup>>).r, 1)

BigToGroups(a, n) == [j \in 1..n |-> BigGroup(a, n - j)]

BigGroupsDigits(groups) ==
    [i \in 1..(4 * Len(groups)) |-> GroupDigits(groups[((i - 1) \div 4) + 1])[((i - 1) % 4) + 1]]

BigToDigitsStrip(ds) ==
    IF \A i \in 1..Len(ds) : ds[i] = 0 THEN <<>>
    ELSE SubSeq(ds, CHOOSE i \in 1..Len(ds) : ds[i] # 0 /\ \A j \in 1..(i - 1) : ds[j] = 0, Len(ds))

BigToDigits(a) == BigToDigitsStrip(BigGroupsDigits(BigToGroups(a, BigBitLen(a) \div 13 + 1)))

(***************************************************************************)
(* IEEE-754 doubles (the JavaScript number type).  A double is NaN, an     *)
(* infinity or a finite value (-1)^neg * m * 2^e whose significand m is    *)
(* zero or has exactly 53 bits.  Arithmetic rounds to nearest, ties to     *)
(* even.  Magnitudes stay far inside the normal range (no overflow to      *)
(* Infinity, no subnormals) for the bounded inputs of this model.          *)
(***************************************************************************)
SignificandBits == 53

NaN == [cls |-> "nan", neg |-> FALSE, m |-> <<>>, e |-> 0]

Infinity(neg) == [cls |-> "inf", neg |-> neg, m |-> <<>>, e |-> 0]

Zero(neg) == [cls |-> "fin", neg |-> neg, m |-> <<>>, e |-> 0]

IsFinite(x) == x.cls = "fin"

IsZero(x) == x.cls = "fin" /\ x.m = <<>>

\* The double nearest to (p / d) * 2^e for naturals p # 0, d # 0: the
\* quotient is taken with a round bit and a sticky flag below the 53 bits
\* kept, rounded to nearest with ties to even, and renormalised.
RoundNormalise(neg, e, m) ==
    IF BigBitLen(m) > SignificandBits
    THEN [cls |-> "fin", neg |-> neg, m |-> BigShr(m, 1).q, e |-> e + 1]
    ELSE [cls |-> "fin", neg |-> neg, m |-> m, e |-> e]

RoundMantissa(neg, e, mant, half, sticky) ==
    RoundNormalise(neg, e, IF half /\ (sticky \/ BigIsOdd(mant)) THEN BigAdd(mant, <<1>>) ELSE mant)

RoundBits(neg, e, sh, inexact) ==
    RoundMantissa(neg, e, BigShr(sh.q, 1).q, BigIsOdd(sh.q), sh.sticky \/ inexact)

RoundCut(neg, e, dm, t) == RoundBits(neg, e + t + 1, BigShr(dm.q, t), dm.r # <<>>)

RoundQuotient(neg, e, dm) == RoundCut(neg, e, dm, BigBitLen(dm.q) - (SignificandBits + 1))

RoundShifted(neg, p, d, e, s) ==
    Eval(IF d = <<1>> THEN [q |-> BigShl(p, s), r |-> <<>>]
         ELSE BigDivMod(BigShl(p, s), d),
         LAMBDA dm : RoundQuotient(neg, e - s, dm))

RoundShift(need) == IF need > 0 THEN need ELSE 0

RoundRatio(neg, p, d, e) ==
    RoundShifted(neg, p, d, e, RoundShift(SignificandBits + 2 + BigBitLen(d) - BigBitLen(p)))

\* The double of a natural number n (exact below 2^53).
DoubleFromInt(n) == IF n = 0 THEN Zero(FALSE) ELSE RoundRatio(FALSE, BigFromInt(n), <<1>>, 0)

\* x * y
DoubleMul(x, y) ==
    IF x.cls = "nan" \/ y.cls = "nan" THEN NaN
    ELSE IF x.cls = "inf" \/ y.cls = "inf"
         THEN (IF IsZero(x) \/ IsZero(y) THEN NaN ELSE Infinity(x.neg # y.neg))
    ELSE IF IsZero(x) \/ IsZero(y) THEN Zero(x.neg # y.neg)
    ELSE RoundRatio(x.neg # y.neg, BigMul(x.m, y.m), <<1>>, x.e + y.e)

\* x / y
DoubleDiv(x, y) ==
    IF x.cls = "nan" \/ y.cls = "nan" THEN NaN
    ELSE IF x.cls = "inf" THEN (IF y.cls = "inf" THEN NaN ELSE Infinity(x.neg # y.neg))
    ELSE IF y.cls = "inf" THEN Zero(x.neg # y.neg)
    ELSE IF IsZero(y) THEN (IF IsZero(x) THEN NaN ELSE Infinity(x.neg # y.neg))
    ELSE IF IsZero(x) THEN Zero(x.neg # y.neg)
    ELSE RoundRatio(x.neg # y.neg, x.m, y.m, x.e - y.e)

\* x <= 0 (false for NaN, as every comparison with NaN)
DoubleLeqZero(x) ==
    CASE x.cls = "nan" -> FALSE
      [] x.cls = "inf" -> x.neg
      [] OTHER         -> x.neg \/ x.m = <<>>

\* The integer part of a finite double as a sign and a magnitude, rounded
\* towards minus infinity.
FloorMagnitude(neg, mag) == [neg |-> neg /\ mag # <<>>, mag |-> mag]

FloorShifted(neg, sh) ==
    FloorMagnitude(neg, IF neg /\ sh.sticky THEN BigAdd(sh.q, <<1>>) ELSE sh.q)

FloorParts(x) ==
    IF x.e >= 0 THEN FloorMagnitude(x.neg, BigShl(x.m, x.e))
    ELSE FloorShifted(x.neg, BigShr(x.m, 0 - x.e))

FloorDouble(neg, f) == IF f.mag = <<>> THEN Zero(neg) ELSE RoundRatio(neg, f.mag, <<1>>, 0)

\* Math.floor(x)
MathFloor(x) ==
    IF x.cls # "fin" \/ x.m = <<>> THEN x ELSE FloorDouble(x.neg, FloorParts(x))

\* x is an integral finite double
IsInteger(x) ==
    x.cls = "fin" /\ (x.m = <<>> \/ x.e >= 0 \/ ~BigShr(x.m, 0 - x.e).sticky)

\* The RangeError thrown by BigInt() for a non-integral number
RangeError == [name |-> "RangeError", message |-> [text |-> "cannot be converted to a BigInt"]]

\* BigInt(x): the exact integer value of x; NaN, the infinities and
\* non-integral values throw a RangeError.
BigIntValue(f) == [throw |-> FALSE, neg |-> f.neg, mag |-> f.mag]

BigIntOf(x) ==
    IF ~IsInteger(x) THEN [throw |-> TRUE, error |-> RangeError]
    ELSE BigIntValue(FloorParts(x))

\* JSON.parse of the number literal n / 10^k (n, k naturals): the nearest double.
DecToDouble(neg, n, k) ==
    IF n = 0 THEN Zero(neg) ELSE RoundRatio(neg, BigFromInt(n), BigPow10(k), 0)

(***************************************************************************)
(* Strings are sequences of one-character strings.                         *)
(***************************************************************************)
DigitChars == <<"0", "1", "2", "3", "4", "5", "6", "7", "8", "9">>

DigitsToString(ds) == [i \in 1..Len(ds) |-> DigitChars[ds[i] + 1]]

\* Number.prototype.toFixed(f) of a finite double below 10^21: the decimal
\* text of the integer n nearest to x * 10^f (the larger n on a tie) with a
\* point before the last f digits.
FixedText(neg, f, padded) ==
    (IF neg THEN <<"-">> ELSE <<>>)
    \o DigitsToString(SubSeq(padded, 1, Len(padded) - f)) \o <<".">>
    \o DigitsToString(SubSeq(padded, Len(padded) - f + 1, Len(padded)))

FixedPadded(neg, f, ds) == FixedText(neg, f, [i \in 1..(f + 1 - Len(ds)) |-> 0] \o ds)

FixedDigits(neg, f, n) == FixedPadded(neg /\ n # <<>>, f, BigToDigits(n))

FixedScaled(x, f, scaled) ==
    FixedDigits(x.neg, f,
                IF x.e >= 0 THEN BigShl(scaled, x.e)
                ELSE BigShr(BigAdd(BigShr(BigMulSmall(scaled, 2), 0 - x.e).q, <<1>>), 1).q)

ToFixed(x, f) ==
    IF x.cls = "nan" THEN <<"N", "a", "N">> ELSE FixedScaled(x, f, BigMul(x.m, BigPow10(f)))

(***************************************************************************)
(* ERG / NanoErg conversion (services/ergoService)                         *)
(***************************************************************************)
NanoErgsPerErg == 1000000000

NANOERGS_PER_ERG == DoubleFromInt(NanoErgsPerErg)

FractionDigits == 9

\* ergToNanoErg(erg) = BigInt(Math.floor(erg * NANOERGS_PER_ERG))
ergToNanoErg(erg) == BigIntOf(MathFloor(DoubleMul(erg, NANOERGS_PER_ERG)))

\* nanoErgToErg(nanoErg) = (nanoErg / NANOERGS_PER_ERG).toFixed(9), for the
\* number nanoErg of an explorer output value.
nanoErgToErg(nanoErg) == ToFixed(DoubleDiv(DoubleFromInt(nanoErg), NANOERGS_PER_ERG), FractionDigits)

\* Number(nanoErg) of a bigint: the nearest double
NumberOfBigInt(mag) == IF mag = <<>> THEN Zero(FALSE) ELSE RoundRatio(FALSE, mag, <<1>>, 0)

\* nanoErgToErg(nanoErg) for a bigint nanoErg:
\* (Number(nanoErg) / NANOERGS_PER_ERG).toFixed(9)
nanoErgToErgOfBigInt(mag) ==
    ToFixed(DoubleDiv(NumberOfBigInt(mag), NANOERGS_PER_ERG), FractionDigits)

\* Number(text) of a decimal text "d...d.d...d": the double nearest to the
\* decimal value.
DigitValue(c) == CHOOSE d \in 0..9 : DigitChars[d + 1] = c

\* The value of at most four digit characters
GroupValue(text) ==
    IF text = <<>> THEN 0
    ELSE DigitValue(text[Len(text)])
         + (IF Len(text) > 1 THEN 10 * DigitValue(text[Len(text) - 1]) ELSE 0)
         + (IF Len(text) > 2 THEN 100 * DigitValue(text[Len(text) - 2]) ELSE 0)
         + (IF Len(text) > 3 THEN 1000 * DigitValue(text[Len(text) - 3]) ELSE 0)

RECURSIVE DigitsToBig(_)
DigitsToBig(text) ==
    IF Len(text) <= 4 THEN BigFromInt(GroupValue(text))
    ELSE Eval(DigitsToBig(SubSeq(text, 1, Len(text) - 4)),
              LAMBDA high : BigAdd(BigMulSmall(high, DigitGroup),
                                   BigFromInt(GroupValue(SubSeq(text, Len(text) - 3, Len(text))))))

IsDigitChar(c) == c # "."

NumberOfDigits(text, digits) ==
    IF digits = <<>> THEN Zero(FALSE)
    ELSE RoundRatio(FALSE, digits,
                    BigPow10(Len(text) - (CHOOSE i \in 1..Len(text) : text[i] = ".")), 0)

NumberOfText(text) == NumberOfDigits(text, DigitsToBig(SelectSeq(text, IsDigitChar)))

(***************************************************************************)
(* JavaScript values of the request body fields.  Every value carries a    *)
(* type tag, a string part and a number part; only the part named by the   *)
(* tag is meaningful.                                                      *)
(***************************************************************************)
Undefined == [t |-> "undefined", s |-> <<>>, n |-> NaN]

Str(s) == [t |-> "string", s |-> s, n |-> NaN]

Num(n) == [t |-> "number", s |-> <<>>, n |-> n]

\* typeof v
TypeOf(v) == v.t

\* !v is false
Truthy(v) ==
    CASE v.t = "string" -> v.s # <<>>
      [] v.t = "number" -> v.n.cls # "nan" /\ ~IsZero(v.n)
      [] OTHER          -> FALSE

Repeat(c, n) == [i \in 1..n |-> c]

HexChars == {"0", "1", "2", "3", "4", "5", "6", "7", "8", "9",
             "a", "b", "c", "d", "e", "f", "A", "B", "C", "D", "E", "F"}

Base58Chars == {"1", "2", "3", "4", "5", "6", "7", "8", "9",
                "A", "B", "C", "D", "E", "F", "G", "H", "J", "K", "L", "M", "N",
                "P", "Q", "R", "S", "T", "U", "V", "W", "X", "Y", "Z",
                "a", "b", "c", "d", "e", "f", "g", "h", "i", "j", "k",
                "m", "n", "o", "p", "q", "r", "s", "t", "u", "v", "w", "x", "y", "z"}

TxIdLength == 64

AddressMinLength == 40

AddressMaxLength == 60

\* Mutant of isValidTxId: the pattern without its anchors and its length
isValidTxId_Unanchored(txId) == \E i \in 1..Len(txId) : txId[i] \in HexChars

\* /^[a-fA-F0-9]{64}$/.test(txId)
isValidTxId(txId) == Len(txId) = TxIdLength /\ \A i \in 1..Len(txId) : txId[i] \in HexChars

\* /^[1-9A-HJ-NP-Za-km-z]{40,60}$/.test(address)
\*   && (address.startsWith('9') || address.startsWith('3'))
isValidAddress(address) ==
    /\ Len(address) >= AddressMinLength
    /\ Len(address) <= AddressMaxLength
    /\ \A i \in 1..Len(address) : address[i] \in Base58Chars
    /\ (address[1] = "9" \/ address[1] = "3")

(***************************************************************************)
(* Errors and responses                                                    *)
(***************************************************************************)
\* new PaymentVerificationError(message, statusCode, code)
PaymentVerificationError(message, statusCode, code) ==
    [name |-> "PaymentVerificationError", message |-> message,
     statusCode |-> statusCode, code |-> code]

Throw(error) == [throw |-> TRUE, error |-> error]

Return(value) == [throw |-> FALSE, value |-> value]

\* Mutant of errorHandler: every error is masked as an internal error.
errorHandler_Masking(err) ==
    [status |-> 500,
     body   |-> [success |-> FALSE,
                 error   |-> [code |-> "INTERNAL_ERROR", message |-> err.message]]]

\* Mutant of errorHandler: the error is sent bare, outside the
\* {success, error} envelope.
errorHandler_NoEnvelope(err) ==
    [status |-> IF err.name = "PaymentVerificationError" THEN err.statusCode ELSE 500,
     body   |-> [error |-> err.message]]

\* errorHandler(err, req, res, next): the response written for an error
\* handed to next().
errorHandler(err) ==
    IF err.name = "PaymentVerificationError"
    THEN [status |-> err.statusCode,
          body   |-> [success |-> FALSE,
                      error   |-> [code |-> err.code, message |-> err.message]]]
    ELSE IF err.name = "SyntaxError"
    THEN [status |-> 400,
          body   |-> [success |-> FALSE,
                      error   |-> [code |-> "INVALID_JSON",
                                   message |-> [text |-> "Invalid JSON in request body"]]]]
    ELSE [status |-> 500,
          body   |-> [success |-> FALSE,
                      error   |-> [code |-> "INTERNAL_ERROR", message |-> err.message]]]

\* Mutant of validateVerificationRequest: the amount checks run before the
\* address format check
validateVerificationRequest_AmountFirst(body) ==
    IF ~Truthy(body.txId) \/ TypeOf(body.txId) # "string"
    THEN Throw(PaymentVerificationError(
             [text |-> "Missing or invalid txId. Must be a string."], 400, "INVALID_REQUEST"))
    ELSE IF ~Truthy(body.merchantAddress) \/ TypeOf(body.merchantAddress) # "string"
    THEN Throw(PaymentVerificationError(
             [text |-> "Missing or invalid merchantAddress. Must be a string."], 400, "INVALID_REQUEST"))
    ELSE IF TypeOf(body.expectedAmountErg) = "undefined" \/ TypeOf(body.expectedAmountErg) # "number"
    THEN Throw(PaymentVerificationError(
             [text |-> "Missing or invalid expectedAmountErg. Must be a number."], 400, "INVALID_REQUEST"))
    ELSE IF DoubleLeqZero(body.expectedAmountErg.n)
    THEN Throw(PaymentVerificationError(
             [text |-> "expectedAmountErg must be greater than 0."], 400, "INVALID_AMOUNT"))
    ELSE IF ~isValidAddress(body.merchantAddress.s)
    THEN Throw(PaymentVerificationError(
             [text |-> "Invalid Ergo address format. Mainnet addresses start with 9."], 400, "INVALID_ADDRESS"))
    ELSE Return([txId |-> body.txId.s, merchantAddress |-> body.merchantAddress.s,
                 expectedAmountErg |-> body.expectedAmountErg.n])

(***************************************************************************)
(* controllers/paymentController                                           *)
(***************************************************************************)
\* validateVerificationRequest(body)
validateVerificationRequest(body) ==
    IF ~Truthy(body.txId) \/ TypeOf(body.txId) # "string"
    THEN Throw(PaymentVerificationError(
             [text |-> "Missing or invalid txId. Must be a string."], 400, "INVALID_REQUEST"))
    ELSE IF ~Truthy(body.merchantAddress) \/ TypeOf(body.merchantAddress) # "string"
    THEN Throw(PaymentVerificationError(
             [text |-> "Missing or invalid merchantAddress. Must be a string."], 400, "INVALID_REQUEST"))
    ELSE IF ~isValidAddress(body.merchantAddress.s)
    THEN Throw(PaymentVerificationError(
             [text |-> "Invalid Ergo address format. Mainnet addresses start with 9."], 400, "INVALID_ADDRESS"))
    ELSE IF TypeOf(body.expectedAmountErg) = "undefined" \/ TypeOf(body.expectedAmountErg) # "number"
    THEN Throw(PaymentVerificationError(
             [text |-> "Missing or invalid expectedAmountErg. Must be a number."], 400, "INVALID_REQUEST"))
    ELSE IF DoubleLeqZero(body.expectedAmountErg.n)
    THEN Throw(PaymentVerificationError(
             [text |-> "expectedAmountErg must be greater than 0."], 400, "INVALID_AMOUNT"))
    ELSE Return([txId |-> body.txId.s, merchantAddress |-> body.merchantAddress.s,
                 expectedAmountErg |-> body.expectedAmountErg.n])

\* text.trim(): text without its leading and trailing spaces
Trim(text) ==
    IF \A i \in 1..Len(text) : text[i] = " " THEN <<>>
    ELSE SubSeq(text,
                CHOOSE i \in 1..Len(text) : text[i] # " " /\ \A j \in 1..(i - 1) : text[j] = " ",
                CHOOSE i \in 1..Len(text) : text[i] # " " /\ \A j \in (i + 1)..Len(text) : text[j] = " ")

\* text.toLowerCase(), over the letters of the addresses and ids above
ToLowerCase(text) ==
    [i \in 1..Len(text) |->
        CASE text[i] = "F" -> "f"
          [] text[i] = "B" -> "b"
          [] OTHER         -> text[i]]

\* Mutants of findMerchantOutput: the address test dropped; the last match
\* taken; addresses compared after trimming and lower-casing.
findMerchantOutput_AnyOutput(outputs, merchantAddress) == IF outputs = <<>> THEN 0 ELSE 1

findMerchantOutput_Normalised(outputs, merchantAddress) ==
    IF \E i \in 1..Len(outputs) :
           ToLowerCase(Trim(outputs[i].address)) = ToLowerCase(Trim(merchantAddress))
    THEN CHOOSE i \in 1..Len(outputs) :
             /\ ToLowerCase(Trim(outputs[i].address)) = ToLowerCase(Trim(merchantAddress))
             /\ \A j \in 1..(i - 1) :
                    ToLowerCase(Trim(outputs[j].address)) # ToLowerCase(Trim(merchantAddress))
    ELSE 0

findMerchantOutput_LastMatch(outputs, merchantAddress) ==
    IF \E i \in 1..Len(outputs) : outputs[i].address = merchantAddress
    THEN CHOOSE i \in 1..Len(outputs) :
             /\ outputs[i].address = merchantAddress
             /\ \A j \in (i + 1)..Len(outputs) : outputs[j].address # merchantAddress
    ELSE 0

\* outputs.find((output) => output.address === merchantAddress): the index
\* of the first matching output, 0 when there is none (undefined).
RECURSIVE FindFrom(_, _, _)
FindFrom(outputs, merchantAddress, i) ==
    IF i > Len(outputs) THEN 0
    ELSE IF outputs[i].address = merchantAddress THEN i
    ELSE FindFrom(outputs, merchantAddress, i + 1)

findMerchantOutput(outputs, merchantAddress) == FindFrom(outputs, merchantAddress, 1)

\* a < b for BigInt values (sign and magnitude)
BigIntLess(a, b) ==
    IF a.neg /\ ~b.neg THEN TRUE
    ELSE IF ~a.neg /\ b.neg THEN FALSE
    ELSE IF a.neg THEN BigLess(b.mag, a.mag)
    ELSE BigLess(a.mag, b.mag)

\* BigInt(value) of an explorer output value (a non-negative integer)
BigIntOfValue(value) == [throw |-> FALSE, neg |-> FALSE, mag |-> BigFromInt(value)]

\* Mutant of confirmationsTooLow: # for <
confirmationsTooLow_NotEqual(transaction, minConfirmations) ==
    transaction.numConfirmations # minConfirmations

\* Mutant of confirmationsTooLow: <= for <
confirmationsTooLow_Leq(transaction, minConfirmations) ==
    transaction.numConfirmations <= minConfirmations

\* Step 4: transaction.numConfirmations < MIN_CONFIRMATIONS
confirmationsTooLow(transaction, minConfirmations) ==
    transaction.numConfirmations < minConfirmations

insufficientConfirmationsError(transaction, minConfirmations) ==
    PaymentVerificationError(
        [text |-> "Insufficient confirmations. Please wait for more blocks.",
         required |-> minConfirmations, current |-> transaction.numConfirmations],
        400, "INSUFFICIENT_CONFIRMATIONS")

\* Mutant of wrongRecipientError: reported as a transaction that was not found.
wrongRecipientError_NotFound(merchantAddress) ==
    PaymentVerificationError(
        [text |-> "No payment found to merchant address.", address |-> merchantAddress],
        404, "TX_NOT_FOUND")

\* Step 5, no output pays the merchant
wrongRecipientError(merchantAddress) ==
    PaymentVerificationError(
        [text |-> "No payment found to merchant address.", address |-> merchantAddress],
        400, "WRONG_RECIPIENT")

\* Mutant of amountTooLow: <= for <
amountTooLow_Leq(merchantOutput, expectedAmountNanoErg) ==
    ~BigIntLess(expectedAmountNanoErg, BigIntOfValue(merchantOutput.value))

\* Step 6: BigInt(merchantOutput.value) < expectedAmountNanoErg
amountTooLow(merchantOutput, expectedAmountNanoErg) ==
    BigIntLess(BigIntOfValue(merchantOutput.value), expectedAmountNanoErg)

amountTooLowError(transaction, merchantOutput, expectedAmountErg) ==
    PaymentVerificationError(
        [text |-> "Payment amount too low.", expected |-> expectedAmountErg,
         received |-> nanoErgToErg(merchantOutput.value)],
        400, "AMOUNT_TOO_LOW")

\* Mutant of verifiedResponse: the amount of the first output is reported.
verifiedResponse_FirstOutput(txId, transaction, merchantOutput) ==
    [status |-> 200,
     body   |-> [verified       |-> TRUE,
                 txId           |-> txId,
                 confirmations  |-> transaction.numConfirmations,
                 receivedAmount |-> nanoErgToErg(transaction.outputs[1].value),
                 message        |-> "Payment verified successfully"]]

\* Step 7: res.status(200).json(response)
verifiedResponse(txId, transaction, merchantOutput) ==
    [status |-> 200,
     body   |-> [verified       |-> TRUE,
                 txId           |-> txId,
                 confirmations  |-> transaction.numConfirmations,
                 receivedAmount |-> nanoErgToErg(merchantOutput.value),
                 message        |-> "Payment verified successfully"]]

\* Mutant of verifySteps: the recipient scan runs before the confirmation gate.
verifySteps_ScanFirst(transaction, txId, merchantAddress, expectedAmountErg, expectedAmountNanoErg, minConfirmations) ==
    LET found == findMerchantOutput(transaction.outputs, merchantAddress)
    IN  IF found = 0
        THEN [throw |-> TRUE, log |-> <<"Transaction has confirmations">>,
              error |-> wrongRecipientError(merchantAddress)]
        ELSE IF confirmationsTooLow(transaction, minConfirmations)
        THEN [throw |-> TRUE, log |-> <<>>,
              error |-> insufficientConfirmationsError(transaction, minConfirmations)]
        ELSE LET merchantOutput == transaction.outputs[found]
             IN  IF amountTooLow(merchantOutput, expectedAmountNanoErg)
                 THEN [throw |-> TRUE,
                       log   |-> <<"Transaction has confirmations", "Found merchant output">>,
                       error |-> amountTooLowError(transaction, merchantOutput, expectedAmountErg)]
                 ELSE [throw |-> FALSE,
                       log   |-> <<"Transaction has confirmations", "Found merchant output",
                                   "Payment verified successfully">>,
                       value |-> verifiedResponse(txId, transaction, merchantOutput)]

\* verifyPayment, steps 4 to 7: the part of the try block that runs once the
\* transaction is fetched.  Gives the thrown error or the response sent, and
\* the console lines written on the way.
verifySteps(transaction, txId, merchantAddress, expectedAmountErg, expectedAmountNanoErg, minConfirmations) ==
    IF confirmationsTooLow(transaction, minConfirmations)
    THEN [throw |-> TRUE, log |-> <<>>,
          error |-> insufficientConfirmationsError(transaction, minConfirmations)]
    ELSE LET found == findMerchantOutput(transaction.outputs, merchantAddress)
         IN  IF found = 0
             THEN [throw |-> TRUE, log |-> <<"Transaction has confirmations">>,
                   error |-> wrongRecipientError(merchantAddress)]
             ELSE LET merchantOutput == transaction.outputs[found]
                  IN  IF amountTooLow(merchantOutput, expectedAmountNanoErg)
                      THEN [throw |-> TRUE,
                            log   |-> <<"Transaction has confirmations", "Found merchant output">>,
                            error |-> amountTooLowError(transaction, merchantOutput, expectedAmountErg)]
                      ELSE [throw |-> FALSE,
                            log   |-> <<"Transaction has confirmations", "Found merchant output",
                                        "Payment verified successfully">>,
                            value |-> verifiedResponse(txId, transaction, merchantOutput)]

(***************************************************************************)
(* services/ergoService: the explorer client                               *)
(***************************************************************************)
\* Mutant of handleApiError: the case labels 500, 502 and 503 fall into the
\* 404 case.
handleApiError_UnavailableAsNotFound(error) ==
    IF error.hasResponse
    THEN CASE error.status \in {404, 500, 502, 503} ->
                PaymentVerificationError([text |-> "Transaction not found. It may not exist or hasn't been indexed yet."], 404, "TX_NOT_FOUND")
           [] error.status = 429 ->
                PaymentVerificationError([text |-> "Rate limit exceeded. Please try again later."], 429, "RATE_LIMITED")
           [] OTHER ->
                PaymentVerificationError([text |-> "API request failed with status", status |-> error.status],
                                         error.status, "API_ERROR")
    ELSE IF error.code = "ECONNABORTED"
    THEN PaymentVerificationError([text |-> "Request to Ergo Explorer timed out."], 504, "TIMEOUT")
    ELSE IF error.code = "ENOTFOUND" \/ error.code = "ECONNREFUSED"
    THEN PaymentVerificationError([text |-> "Unable to connect to Ergo Explorer API."],
                                  503, "CONNECTION_ERROR")
    ELSE PaymentVerificationError([text |-> "An unexpected error occurred while fetching transaction data."], 500, "UNKNOWN_ERROR")

\* handleApiError(error): the PaymentVerificationError for an axios failure.
\* A failure carries an HTTP response status, or no response and an error code.
handleApiError(error) ==
    IF error.hasResponse
    THEN CASE error.status = 404 ->
                PaymentVerificationError([text |-> "Transaction not found. It may not exist or hasn't been indexed yet."], 404, "TX_NOT_FOUND")
           [] error.status = 429 ->
                PaymentVerificationError([text |-> "Rate limit exceeded. Please try again later."], 429, "RATE_LIMITED")
           [] error.status \in {500, 502, 503} ->
                PaymentVerificationError([text |-> "Ergo Explorer API is temporarily unavailable."],
                                         503, "API_UNAVAILABLE")
           [] OTHER ->
                PaymentVerificationError([text |-> "API request failed with status", status |-> error.status],
                                         error.status, "API_ERROR")
    ELSE IF error.code = "ECONNABORTED"
    THEN PaymentVerificationError([text |-> "Request to Ergo Explorer timed out."], 504, "TIMEOUT")
    ELSE IF error.code = "ENOTFOUND" \/ error.code = "ECONNREFUSED"
    THEN PaymentVerificationError([text |-> "Unable to connect to Ergo Explorer API."],
                                  503, "CONNECTION_ERROR")
    ELSE PaymentVerificationError([text |-> "An unexpected error occurred while fetching transaction data."], 500, "UNKNOWN_ERROR")

(***************************************************************************)
(* Bounds and the bounded input sets                                       *)
(***************************************************************************)
MaxOutputs == 2

MaxConfirmations == 1

MaxMinConfirmations == 1

RequestIds == {"r1"}

MERCHANT == <<"9">> \o Repeat("f", 50)

\* a second well-formed address; it differs from MERCHANT in letter case only
SENDER == <<"9">> \o Repeat("F", 50)

\* an output address that differs from MERCHANT in leading and trailing
\* whitespace only
PADDED == <<" ">> \o MERCHANT \o <<" ">>

TX_INDEXED == Repeat("a", TxIdLength)

TX_UNKNOWN == Repeat("B", TxIdLength)

\* number literals n / 10^k a request body can carry: 1.5, 0.3, 0.0000000004
\* (JSON.parse also yields an infinity, for a literal such as 1e999)
AmountLiterals == {<<15, 1>>, <<3, 1>>, <<4, 10>>}

TxIdInputs ==
    {Undefined, Str(<<>>), Num(DoubleFromInt(7)), Str(<<"x", "y", "z">>),
     Str(TX_INDEXED), Str(TX_UNKNOWN)}

AddressInputs ==
    {Undefined, Num(DoubleFromInt(7)), Str(<<"9", "f">>), Str(MERCHANT), Str(SENDER)}

AmountInputs ==
    {Undefined, Str(<<"1", ".", "5">>), Num(Infinity(FALSE)), Num(Infinity(TRUE)),
     Num(Zero(FALSE)), Num(DecToDouble(TRUE, 15, 1))}
    \cup {Num(DecToDouble(FALSE, l[1], l[2])) : l \in AmountLiterals}

Bodies == [txId : TxIdInputs, merchantAddress : AddressInputs, expectedAmountErg : AmountInputs]

OutputAddresses == {MERCHANT, SENDER}

OutputValues == {299999999, 300000000, 1500000000}

Outputs == [address : OutputAddresses, value : OutputValues]

\* outputs that pay 1.5 ERG to an address differing from MERCHANT in letter
\* case or in whitespace only
NearMissOutputs == [address : {SENDER, PADDED}, value : {1500000000}]

OutputLists == UNION {[1..n -> Outputs] \cup [1..n -> NearMissOutputs] : n \in 0..MaxOutputs}

\* ways the explorer request can fail: an HTTP error status, or no response
AxiosFailures ==
    [hasResponse : {TRUE}, status : {400, 404, 429, 500, 502, 503}, code : {"ERR_BAD_RESPONSE"}]
    \cup [hasResponse : {FALSE}, status : {0},
          code : {"ECONNABORTED", "ENOTFOUND", "ECONNREFUSED", "ECONNRESET"}]

(***************************************************************************)
(* State                                                                   *)
(***************************************************************************)
VARIABLES
    MIN_CONFIRMATIONS,  \* the module constant read from the environment at load
    explorer,           \* the explorer's view of the chain: txId -> transaction
    requests,           \* the verification request of each client
    converter,          \* the call of a unit conversion function under way
    now,                \* the browser's clock, Math.floor(Date.now() / 1000)
    provider,           \* WalletProvider: its state, its calls under way, the wallet extension
    widget,             \* SigmaPayWidget: its props, its state and its timer
    payments            \* the calls of sendErgoPayment, in the order they were made

vars == <<MIN_CONFIRMATIONS, explorer, requests, converter, now, provider, widget, payments>>

\* the server side of the state and the browser side
serverVars == <<MIN_CONFIRMATIONS, explorer, requests, converter>>

browserVars == <<now, provider, widget, payments>>

\* no page of the frontend is open
NotRendered == [mounted |-> FALSE]

NoBrowser ==
    /\ now = 0
    /\ provider = NotRendered
    /\ widget = NotRendered
    /\ payments = <<>>

\* parseInt(text, 10) of a string of decimal digits
RECURSIVE ParseInt(_)
ParseInt(text) ==
    IF text = <<>> THEN 0
    ELSE 10 * ParseInt(SubSeq(text, 1, Len(text) - 1))
         + (CHOOSE d \in 0..9 : DigitChars[d + 1] = text[Len(text)])

\* values of process.env.MIN_CONFIRMATIONS: unset, or a decimal number
EnvMinConfirmations == {<<>>} \cup {<<DigitChars[n + 1]>> : n \in 0..MaxMinConfirmations}

\* parseInt(process.env.MIN_CONFIRMATIONS || '1', 10)
MinConfirmationsOf(env) == ParseInt(IF env = <<>> THEN <<"1">> ELSE env)

Idle == [pc |-> "idle"]

NoCall == [op |-> "none"]

Init ==
    /\ MIN_CONFIRMATIONS \in {MinConfirmationsOf(env) : env \in EnvMinConfirmations}
    /\ explorer \in [{TX_INDEXED} ->
                        [id : {TX_INDEXED}, numConfirmations : 0..MaxConfirmations,
                         outputs : OutputLists]]
    /\ requests = [r \in RequestIds |-> Idle]
    /\ converter = NoCall
    /\ NoBrowser

\* notFoundHandler(req, res, next): the response for a request no route answers
notFoundHandler ==
    [status |-> 404,
     body   |-> [success |-> FALSE,
                 error   |-> [code |-> "NOT_FOUND", message |-> [text |-> "Route not found"]]]]

\* Mutant of catchNext: next() is called without the error.
catchNext_DropsError(result) ==
    IF result.throw
    THEN [caught |-> <<>>, response |-> notFoundHandler, log |-> result.log, promise |-> "fulfilled"]
    ELSE [caught |-> <<>>, response |-> result.value, log |-> result.log,
          promise |-> "fulfilled"]

\* The catch block and the express error middleware: a thrown error goes to
\* next(error) and errorHandler writes the response; the handler's promise
\* is fulfilled either way.
catchNext(result) ==
    IF result.throw
    THEN [caught |-> <<result.error>>, response |-> errorHandler(result.error),
          log |-> result.log \o <<"Error caught">>, promise |-> "fulfilled"]
    ELSE [caught |-> <<>>, response |-> result.value, log |-> result.log,
          promise |-> "fulfilled"]

\* The request once its response is written.
Done(body, request, nano, getTransactionCalls, explorerRequests, fetched, failure, log, result) ==
    LET end == catchNext(result)
    IN  [pc |-> "done", body |-> body, request |-> request, expectedAmountNanoErg |-> nano,
         getTransactionCalls |-> getTransactionCalls, explorerRequests |-> explorerRequests,
         fetched |-> fetched, failure |-> failure, caught |-> end.caught, response |-> end.response,
         log |-> log \o end.log, promise |-> end.promise]

\* verifyPayment from its call to the await of ergoService.getTransaction:
\* validation, unit conversion, the transaction id check of getTransaction
\* and the explorer request.
getTransactionStart(body, request, expectedAmountNanoErg) ==
    IF ~isValidTxId(request.txId)
    THEN Done(body, <<request>>, <<expectedAmountNanoErg>>, 1, 0, <<>>, <<>>,
              <<"Received verification request", "Expected amount">>,
              [throw |-> TRUE, log |-> <<>>,
               error |-> PaymentVerificationError(
                           [text |-> "Invalid transaction ID format. Must be a 64-character hex string."], 400, "INVALID_TX_ID")])
    ELSE [pc |-> "fetching", body |-> body, request |-> <<request>>,
          expectedAmountNanoErg |-> <<expectedAmountNanoErg>>,
          getTransactionCalls |-> 1, explorerRequests |-> 1,
          log |-> <<"Received verification request", "Expected amount", "Fetching transaction">>]

convertedStart(body, request, expectedAmountNanoErg) ==
    IF expectedAmountNanoErg.throw
    THEN Done(body, <<request>>, <<>>, 0, 0, <<>>, <<>>, <<"Received verification request">>,
              [throw |-> TRUE, error |-> expectedAmountNanoErg.error, log |-> <<>>])
    ELSE getTransactionStart(body, request, expectedAmountNanoErg)

validatedStart(body, v) ==
    IF v.throw
    THEN Done(body, <<>>, <<>>, 0, 0, <<>>, <<>>, <<"Received verification request">>,
              [throw |-> TRUE, error |-> v.error, log |-> <<>>])
    ELSE convertedStart(body, v.value, ergToNanoErg(v.value.expectedAmountErg))

verifyPaymentStart(body) == validatedStart(body, validateVerificationRequest(body))

\* A client posts one of the given bodies to /api/payments/verify.
VerifyPaymentOf(r, bodies) ==
    /\ requests[r].pc = "idle"
    /\ \E body \in bodies : requests' = [requests EXCEPT ![r] = verifyPaymentStart(body)]
    /\ UNCHANGED <<browserVars, MIN_CONFIRMATIONS, explorer, converter>>

\* A client posts a body to /api/payments/verify.
VerifyPayment(r) == VerifyPaymentOf(r, Bodies)

\* Mutant of TransactionFetched: the request is kept in a module-level
\* variable that a later call overwrites while this one awaits the explorer.
TransactionFetched_SharedRequest(r) ==
    /\ requests[r].pc = "fetching"
    /\ requests[r].request[1].txId \in DOMAIN explorer
    /\ LET rq          == requests[r]
           later       == {o \in DOMAIN requests : o # r /\ requests[o].pc = "fetching"}
           current     == IF later = {} THEN rq ELSE requests[CHOOSE o \in later : TRUE]
           transaction == explorer[rq.request[1].txId]
           result      == verifySteps(transaction, current.request[1].txId,
                                      current.request[1].merchantAddress,
                                      current.request[1].expectedAmountErg,
                                      current.expectedAmountNanoErg[1], MIN_CONFIRMATIONS)
       IN  requests' = [requests EXCEPT ![r] =
               Done(rq.body, rq.request, rq.expectedAmountNanoErg, rq.getTransactionCalls,
                    rq.explorerRequests, <<transaction>>, <<>>,
                    rq.log \o <<"Transaction found">>, result)]
    /\ UNCHANGED <<browserVars, MIN_CONFIRMATIONS, explorer, converter>>

\* The explorer answers with the transaction; verifyPayment resumes after the
\* await and runs to its response.
TransactionFetched(r) ==
    /\ requests[r].pc = "fetching"
    /\ requests[r].request[1].txId \in DOMAIN explorer
    /\ LET rq          == requests[r]
           transaction == explorer[rq.request[1].txId]
           result      == verifySteps(transaction, rq.request[1].txId,
                                      rq.request[1].merchantAddress,
                                      rq.request[1].expectedAmountErg,
                                      rq.expectedAmountNanoErg[1], MIN_CONFIRMATIONS)
       IN  requests' = [requests EXCEPT ![r] =
               Done(rq.body, rq.request, rq.expectedAmountNanoErg, rq.getTransactionCalls,
                    rq.explorerRequests, <<transaction>>, <<>>,
                    rq.log \o <<"Transaction found">>, result)]
    /\ UNCHANGED <<browserVars, MIN_CONFIRMATIONS, explorer, converter>>

\* The explorer request fails; the axios interceptor rejects with
\* handleApiError(error) and the catch block of verifyPayment forwards it.
FetchFailedWith(r, failures) ==
    /\ requests[r].pc = "fetching"
    /\ \E error \in failures :
          /\ (error.hasResponse /\ error.status = 404) => requests[r].request[1].txId \notin DOMAIN explorer
          /\ LET rq == requests[r]
             IN  requests' = [requests EXCEPT ![r] =
                     Done(rq.body, rq.request, rq.expectedAmountNanoErg, rq.getTransactionCalls,
                          rq.explorerRequests, <<>>, <<error>>, rq.log,
                          [throw |-> TRUE, error |-> handleApiError(error), log |-> <<>>])]
    /\ UNCHANGED <<browserVars, MIN_CONFIRMATIONS, explorer, converter>>

\* express.json() cannot parse the posted body: body-parser hands a
\* SyntaxError carrying the raw body to next(), verifyPayment is never called
\* and errorHandler writes the response.
JsonSyntaxError ==
    [name |-> "SyntaxError", message |-> [text |-> "Unexpected token in JSON"], body |-> TRUE]

JsonParseFailed(r) ==
    /\ requests[r].pc = "idle"
    /\ requests' = [requests EXCEPT ![r] =
           [pc |-> "unparsed", getTransactionCalls |-> 0, explorerRequests |-> 0,
            fetched |-> <<>>, failure |-> <<>>, caught |-> <<JsonSyntaxError>>,
            response |-> errorHandler(JsonSyntaxError), log |-> <<"Error caught">>]]
    /\ UNCHANGED <<browserVars, MIN_CONFIRMATIONS, explorer, converter>>

FetchFailed(r) == FetchFailedWith(r, AxiosFailures)

\* The response has been sent; the client may post again.
\* Mutant of Close: the transaction fetched and the response of the call are
\* kept in the request slot after the response is sent.
Close_KeepsResult(r) ==
    /\ requests[r].pc \in {"done", "unparsed"}
    /\ requests' = [requests EXCEPT ![r] = [pc |-> "idle", fetched |-> requests[r].fetched,
                                            response |-> requests[r].response]]
    /\ UNCHANGED <<browserVars, MIN_CONFIRMATIONS, explorer, converter>>

Close(r) ==
    /\ requests[r].pc \in {"done", "unparsed"}
    /\ requests' = [requests EXCEPT ![r] = Idle]
    /\ UNCHANGED <<browserVars, MIN_CONFIRMATIONS, explorer, converter>>

\* A block is mined: every indexed transaction gains a confirmation.
MineBlock ==
    /\ \A t \in DOMAIN explorer : explorer[t].numConfirmations < MaxConfirmations
    /\ explorer' = [t \in DOMAIN explorer |->
                       [explorer[t] EXCEPT !.numConfirmations = @ + 1]]
    /\ UNCHANGED <<browserVars, MIN_CONFIRMATIONS, requests, converter>>

Next ==
    \/ \E r \in DOMAIN requests : JsonParseFailed(r)
    \/ \E r \in DOMAIN requests : VerifyPayment(r)
    \/ \E r \in DOMAIN requests : TransactionFetched(r)
    \/ \E r \in DOMAIN requests : FetchFailed(r)
    \/ \E r \in DOMAIN requests : Close(r)
    \/ MineBlock

Spec == Init /\ [][Next]_vars

(***************************************************************************)
(* Several clients at once: well-formed requests for the indexed           *)
(* transaction, interleaved around the await of the explorer.              *)
(***************************************************************************)
ConcurrentRequestIds == {"r1", "r2"}

ConcurrentBodies ==
    [txId : {Str(TX_INDEXED)}, merchantAddress : {Str(MERCHANT), Str(SENDER)},
     expectedAmountErg : {Num(DecToDouble(FALSE, 3, 1)), Num(DecToDouble(FALSE, 15, 1))}]

ConcurrentFailures == {e \in AxiosFailures : e.code = "ECONNABORTED"}

\* the indexed transaction has no output or a single one
ConcurrentOutputLists == {outputs \in OutputLists : Len(outputs) <= 1}

ConcInit ==
    /\ MIN_CONFIRMATIONS \in {MinConfirmationsOf(env) : env \in EnvMinConfirmations}
    /\ explorer \in [{TX_INDEXED} ->
                        [id : {TX_INDEXED}, numConfirmations : 0..MaxConfirmations,
                         outputs : ConcurrentOutputLists]]
    /\ requests = [r \in ConcurrentRequestIds |-> Idle]
    /\ converter = NoCall
    /\ NoBrowser

ConcNext ==
    \/ \E r \in DOMAIN requests : VerifyPaymentOf(r, ConcurrentBodies)
    \/ \E r \in DOMAIN requests : TransactionFetched(r)
    \/ \E r \in DOMAIN requests : FetchFailedWith(r, ConcurrentFailures)
    \/ \E r \in DOMAIN requests : Close(r)
    \/ MineBlock

ConcSpec == ConcInit /\ [][ConcNext]_vars

(***************************************************************************)
(* The unit conversion functions called on their own                       *)
(***************************************************************************)
\* amounts are the number literals n / 10^k, n in 1..MaxLiteral
MaxLiteral == 40

LiteralScales == {0, 1, 2, 9, 10}

ErgLiterals == (1..MaxLiteral) \X LiteralScales

\* NanoErg values erg * 10^9 + nano, nano in 0..MaxNanoPart or near 10^9
MaxNanoPart == 20

ErgParts == {0, 1, 2, 8388607, 8388608, 9000000}

NanoParts == (0..MaxNanoPart) \cup {500000000, 999999999}

NanoErgParts == ErgParts \X NanoParts

BigOfParts(parts) ==
    BigAdd(BigMul(BigFromInt(parts[1]), BigFromInt(NanoErgsPerErg)), BigFromInt(parts[2]))

ConvInit ==
    /\ MIN_CONFIRMATIONS = MinConfirmationsOf(<<>>)
    /\ explorer = <<>>
    /\ requests = <<>>
    /\ converter = NoCall
    /\ NoBrowser

\* ergToNanoErg(erg) is called with a number.
ErgToNanoErgCalled ==
    /\ converter = NoCall
    /\ \E l \in ErgLiterals :
          converter' = [op |-> "ergToNanoErg", literal |-> l,
                        erg |-> DecToDouble(FALSE, l[1], l[2]),
                        result |-> ergToNanoErg(DecToDouble(FALSE, l[1], l[2]))]
    /\ UNCHANGED <<browserVars, MIN_CONFIRMATIONS, explorer, requests>>

\* nanoErgToErg(nanoErg) is called with a bigint.
NanoErgToErgCalled ==
    /\ converter = NoCall
    /\ \E parts \in NanoErgParts :
          converter' = [op |-> "nanoErgToErg", parts |-> parts, nanoErg |-> BigOfParts(parts),
                        result |-> nanoErgToErgOfBigInt(BigOfParts(parts))]
    /\ UNCHANGED <<browserVars, MIN_CONFIRMATIONS, explorer, requests>>

\* The text nanoErgToErg returned is read as a number and handed to
\* ergToNanoErg.
TextConvertedBack ==
    /\ converter.op = "nanoErgToErg"
    /\ converter' = [op |-> "roundTrip", parts |-> converter.parts, nanoErg |-> converter.nanoErg,
                     text |-> converter.result, erg |-> NumberOfText(converter.result),
                     result |-> ergToNanoErg(NumberOfText(converter.result))]
    /\ UNCHANGED <<browserVars, MIN_CONFIRMATIONS, explorer, requests>>

ConverterReturned ==
    /\ converter.op # "none"
    /\ converter' = NoCall
    /\ UNCHANGED <<browserVars, MIN_CONFIRMATIONS, explorer, requests>>

ConvNext ==
    \/ ErgToNanoErgCalled
    \/ NanoErgToErgCalled
    \/ TextConvertedBack
    \/ ConverterReturned

ConvSpec == ConvInit /\ [][ConvNext]_vars

(***************************************************************************)
(* Properties                                                              *)
(***************************************************************************)
\* The request answered with the 200 body carrying verified: true.
IsVerified(rq) ==
    /\ rq.pc = "done"
    /\ rq.response.status = 200
    /\ "verified" \in DOMAIN rq.response.body
    /\ rq.response.body.verified = TRUE

\* The request answered with the failure body carrying the given error code.
IsRejected(rq, code) ==
    /\ rq.pc = "done"
    /\ "error" \in DOMAIN rq.response.body
    /\ rq.response.body.error.code = code

\* The request whose transaction was fetched and then run through the steps.
IsFetched(rq) == rq.pc = "done" /\ rq.fetched # <<>>

OutcomeOf(rq) == IF IsVerified(rq) THEN "VERIFIED" ELSE rq.response.body.error.code

\* floor(erg * 10^9) in exact arithmetic, for a finite erg >= 0
ExactNanoErgFloor(erg) ==
    LET p == BigMul(erg.m, BigFromInt(NanoErgsPerErg))
    IN  IF erg.e >= 0 THEN BigShl(p, erg.e) ELSE BigShr(p, 0 - erg.e).q

Matches(outputs, recipient) == {i \in 1..Len(outputs) : outputs[i].address = recipient}

FirstMatch(outputs, recipient) ==
    CHOOSE i \in Matches(outputs, recipient) : \A j \in Matches(outputs, recipient) : i <= j

\* value >= amount, for a natural value and an arbitrary-precision amount
ValueAtLeast(value, amount) == BigCmp(BigFromInt(value), amount) >= 0

PaysAtLeast(transaction, recipient, amount) ==
    \E i \in Matches(transaction.outputs, recipient) :
        ValueAtLeast(transaction.outputs[i].value, amount)

\* C1: a Verified result (200, verified: true) is produced only if the
\* fetched transaction has an output whose address equals merchantAddress
\* exactly and whose value is at least floor(expectedAmountErg * 10^9).
C1_VerifiedOnlyIfPaid ==
    \A r \in DOMAIN requests :
        IsVerified(requests[r]) =>
            /\ requests[r].fetched # <<>>
            /\ requests[r].body.txId.t = "string"
            /\ requests[r].fetched[1].id = requests[r].body.txId.s
            /\ requests[r].body.merchantAddress.t = "string"
            /\ requests[r].body.expectedAmountErg.t = "number"
            /\ IsFinite(requests[r].body.expectedAmountErg.n)
            /\ PaysAtLeast(requests[r].fetched[1], requests[r].body.merchantAddress.s,
                           ExactNanoErgFloor(requests[r].body.expectedAmountErg.n))

\* a verified payment found behind an output to another address
C1_Witness ==
    \E r \in DOMAIN requests :
        /\ IsVerified(requests[r])
        /\ Len(requests[r].fetched[1].outputs) = 2
        /\ requests[r].fetched[1].outputs[1].address # requests[r].body.merchantAddress.s

\* The four-step reference procedure: confirmation gate, scan for the first
\* output paying the recipient, amount check, accept.
RefOutcome(transaction, recipient, amount, minConfirmations) ==
    IF transaction.numConfirmations < minConfirmations THEN "INSUFFICIENT_CONFIRMATIONS"
    ELSE IF Matches(transaction.outputs, recipient) = {} THEN "WRONG_RECIPIENT"
    ELSE IF ~ValueAtLeast(transaction.outputs[FirstMatch(transaction.outputs, recipient)].value, amount)
         THEN "AMOUNT_TOO_LOW"
    ELSE "VERIFIED"

\* The console lines a run of the reference procedure leaves, one per step passed.
RefSteps(outcome) ==
    CASE outcome = "INSUFFICIENT_CONFIRMATIONS" -> <<>>
      [] outcome = "WRONG_RECIPIENT" -> <<"Transaction has confirmations">>
      [] outcome = "AMOUNT_TOO_LOW" -> <<"Transaction has confirmations", "Found merchant output">>
      [] OTHER -> <<"Transaction has confirmations", "Found merchant output",
                    "Payment verified successfully">>

IsStepLine(line) ==
    line \in {"Transaction has confirmations", "Found merchant output", "Payment verified successfully"}

RefOutcomeOf(rq) ==
    RefOutcome(rq.fetched[1], rq.request[1].merchantAddress, rq.expectedAmountNanoErg[1].mag,
               MIN_CONFIRMATIONS)

\* C2: for every fetched transaction, recipient and positive finite amount,
\* the outcome of verifyPayment is the outcome of the reference procedure
\* (gate, scan, amount check, accept, the first failing step deciding), and
\* no step after the deciding one is run.  The amount compared is the one
\* ergToNanoErg produced.
C2_OutcomeIsReference ==
    \A r \in DOMAIN requests :
        IsFetched(requests[r]) =>
            /\ OutcomeOf(requests[r]) = RefOutcomeOf(requests[r])
            /\ SelectSeq(requests[r].log, IsStepLine) = RefSteps(RefOutcomeOf(requests[r]))

\* a transaction failing the gate and the scan: the gate alone decides
C2_Witness ==
    \E r \in DOMAIN requests :
        /\ IsFetched(requests[r])
        /\ IsRejected(requests[r], "INSUFFICIENT_CONFIRMATIONS")
        /\ requests[r].fetched[1].outputs # <<>>
        /\ Matches(requests[r].fetched[1].outputs, requests[r].request[1].merchantAddress) = {}

C4_FirstMatchOnly ==
    \A r \in DOMAIN requests :
        (/\ IsFetched(requests[r])
         /\ requests[r].fetched[1].numConfirmations >= MIN_CONFIRMATIONS
         /\ Matches(requests[r].fetched[1].outputs, requests[r].request[1].merchantAddress) # {})
        => LET outputs == requests[r].fetched[1].outputs
               first   == outputs[FirstMatch(outputs, requests[r].request[1].merchantAddress)]
               enough  == ValueAtLeast(first.value, requests[r].expectedAmountNanoErg[1].mag)
           IN  /\ ~enough => IsRejected(requests[r], "AMOUNT_TOO_LOW")
               /\ IsVerified(requests[r]) => enough

\* two outputs to the recipient, the first too small, the second sufficient
C4_Witness ==
    \E r \in DOMAIN requests :
        /\ IsRejected(requests[r], "AMOUNT_TOO_LOW")
        /\ IsFetched(requests[r])
        /\ Len(requests[r].fetched[1].outputs) = 2
        /\ \A i \in 1..2 : requests[r].fetched[1].outputs[i].address = requests[r].request[1].merchantAddress
        /\ ValueAtLeast(requests[r].fetched[1].outputs[2].value, requests[r].expectedAmountNanoErg[1].mag)

\* The request carries a txId that is missing, empty or not a string, a
\* merchantAddress failing the structural check, or an expectedAmountErg
\* that is not a strictly positive finite number.
IsInvalidBody(body) ==
    \/ body.txId.t # "string" \/ body.txId.s = <<>>
    \/ body.merchantAddress.t # "string" \/ ~isValidAddress(body.merchantAddress.s)
    \/ body.expectedAmountErg.t # "number"
    \/ ~IsFinite(body.expectedAmountErg.n)
    \/ DoubleLeqZero(body.expectedAmountErg.n)

\* C5: a request with a missing, empty or non-string txId, a malformed
\* merchantAddress or an expectedAmountErg that is not a strictly positive
\* finite number is rejected with INVALID_REQUEST, INVALID_ADDRESS or
\* INVALID_AMOUNT, and neither getTransaction nor a verification step runs.
C5_InvalidRequestsRejected ==
    \A r \in DOMAIN requests :
        (requests[r].pc = "done" /\ IsInvalidBody(requests[r].body)) =>
            /\ \/ IsRejected(requests[r], "INVALID_REQUEST")
               \/ IsRejected(requests[r], "INVALID_ADDRESS")
               \/ IsRejected(requests[r], "INVALID_AMOUNT")
            /\ requests[r].getTransactionCalls = 0
            /\ requests[r].explorerRequests = 0
            /\ requests[r].fetched = <<>>
            /\ SelectSeq(requests[r].log, IsStepLine) = <<>>

\* The request whose call of getTransaction failed.
IsFetchFailure(rq) == rq.pc = "done" /\ rq.getTransactionCalls = 1 /\ rq.fetched = <<>>

\* The error getTransaction rejected with.
FetcherError(rq) ==
    IF rq.failure # <<>> THEN handleApiError(rq.failure[1])
    ELSE PaymentVerificationError([text |-> "Invalid transaction ID format. Must be a 64-character hex string."], 400, "INVALID_TX_ID")

\* C6: when the fetcher fails, its failure reaches the caller with its own
\* code, status and message, no verification step runs, the request does
\* not end Verified, and getTransaction is called at most once per request.
C6_FetchFailurePassedThrough ==
    \A r \in DOMAIN requests :
        /\ requests[r].pc # "idle" =>
              requests[r].getTransactionCalls <= 1 /\ requests[r].explorerRequests <= 1
        /\ IsFetchFailure(requests[r]) =>
              /\ requests[r].response.status = FetcherError(requests[r]).statusCode
              /\ DOMAIN requests[r].response.body = {"success", "error"}
              /\ requests[r].response.body.success = FALSE
              /\ requests[r].response.body.error.code = FetcherError(requests[r]).code
              /\ requests[r].response.body.error.message.text = FetcherError(requests[r]).message.text
              /\ ~IsVerified(requests[r])
              /\ SelectSeq(requests[r].log, IsStepLine) = <<>>

\* the explorer request timed out and the caller is told so
C6_Witness ==
    \E r \in DOMAIN requests :
        /\ IsFetchFailure(requests[r])
        /\ requests[r].failure # <<>>
        /\ requests[r].failure[1].code = "ECONNABORTED"
        /\ requests[r].response.status = 504
        /\ IsRejected(requests[r], "TIMEOUT")

BusinessRejections == {"INSUFFICIENT_CONFIRMATIONS", "WRONG_RECIPIENT", "AMOUNT_TOO_LOW"}

IsBusinessRejection(rq) == IsFetched(rq) /\ RefOutcomeOf(rq) \in BusinessRejections

\* C7 as stated: a business rejection is an outcome returned to the caller,
\* never a thrown fault - no error is thrown for it inside verifyPayment.
C7_NeverThrown ==
    \A r \in DOMAIN requests :
        IsBusinessRejection(requests[r]) =>
            /\ DOMAIN requests[r].response.body = {"success", "error"}
            /\ requests[r].caught = <<>>

\* C7 (amended): every business rejection is thrown inside verifyPayment as
\* a typed PaymentVerificationError (status 400 and its own code), caught
\* by the catch block and answered by errorHandler with the structured body
\* {success: false, error: {code, message}}; it never leaves verifyPayment
\* uncaught and never becomes an untyped internal error.
C7_RejectionsTypedAndCaught ==
    \A r \in DOMAIN requests :
        IsBusinessRejection(requests[r]) =>
            /\ Len(requests[r].caught) = 1
            /\ requests[r].caught[1].name = "PaymentVerificationError"
            /\ requests[r].caught[1].code = RefOutcomeOf(requests[r])
            /\ requests[r].caught[1].statusCode = 400
            /\ requests[r].promise = "fulfilled"
            /\ requests[r].response.status = 400
            /\ DOMAIN requests[r].response.body = {"success", "error"}
            /\ requests[r].response.body.success = FALSE
            /\ DOMAIN requests[r].response.body.error = {"code", "message"}
            /\ requests[r].response.body.error.code = RefOutcomeOf(requests[r])

\* a payment to the wrong recipient, thrown, caught and answered with 400
C7_Witness ==
    \E r \in DOMAIN requests :
        /\ IsBusinessRejection(requests[r])
        /\ IsRejected(requests[r], "WRONG_RECIPIENT")
        /\ requests[r].caught # <<>>

\* C8: when the value of the selected (first matching) output equals the
\* converted expected amount exactly, the result is Verified: the amount
\* check is received >= expected.
C8_ExactAmountVerified ==
    \A r \in DOMAIN requests :
        (/\ IsFetched(requests[r])
         /\ requests[r].fetched[1].numConfirmations >= MIN_CONFIRMATIONS
         /\ Matches(requests[r].fetched[1].outputs, requests[r].request[1].merchantAddress) # {})
        => LET outputs == requests[r].fetched[1].outputs
               first   == outputs[FirstMatch(outputs, requests[r].request[1].merchantAddress)]
           IN  BigCmp(BigFromInt(first.value), requests[r].expectedAmountNanoErg[1].mag) = 0
                  => IsVerified(requests[r])

\* 0.3 ERG expected, exactly 300000000 NanoErg received
C8_Witness ==
    \E r \in DOMAIN requests :
        /\ IsVerified(requests[r])
        /\ LET outputs == requests[r].fetched[1].outputs
               first   == outputs[FirstMatch(outputs, requests[r].request[1].merchantAddress)]
           IN  BigCmp(BigFromInt(first.value), requests[r].expectedAmountNanoErg[1].mag) = 0

\* C9: a transaction with sufficient confirmations and no outputs is
\* answered WRONG_RECIPIENT (status 400, a typed error) for every recipient
\* and amount.
C9_EmptyOutputsWrongRecipient ==
    \A r \in DOMAIN requests :
        (/\ IsFetched(requests[r])
         /\ requests[r].fetched[1].numConfirmations >= MIN_CONFIRMATIONS
         /\ requests[r].fetched[1].outputs = <<>>)
        => /\ IsRejected(requests[r], "WRONG_RECIPIENT")
           /\ requests[r].response.status = 400
           /\ requests[r].caught[1].name = "PaymentVerificationError"

C9_Witness ==
    \E r \in DOMAIN requests :
        /\ IsFetched(requests[r])
        /\ requests[r].fetched[1].outputs = <<>>
        /\ IsRejected(requests[r], "WRONG_RECIPIENT")

\* C10: the received amount reported by a Verified result and by an
\* AMOUNT_TOO_LOW rejection is nanoErgToErg of the value of the selected
\* (first matching) output, and Verified.confirmations is the confirmation
\* count of the fetched transaction.
C10_ReportedAmountIsSelectedOutput ==
    \A r \in DOMAIN requests :
        (IsFetched(requests[r]) /\ (IsVerified(requests[r]) \/ IsRejected(requests[r], "AMOUNT_TOO_LOW")))
        => LET outputs == requests[r].fetched[1].outputs
               first   == outputs[FirstMatch(outputs, requests[r].request[1].merchantAddress)]
           IN  /\ IsVerified(requests[r]) =>
                     /\ requests[r].response.body.receivedAmount = nanoErgToErg(first.value)
                     /\ requests[r].response.body.confirmations
                           = requests[r].fetched[1].numConfirmations
               /\ IsRejected(requests[r], "AMOUNT_TOO_LOW") =>
                     requests[r].response.body.error.message.received = nanoErgToErg(first.value)

\* verified on the second output, which holds more than the first output
\* and more than the expected amount
C10_Witness ==
    \E r \in DOMAIN requests :
        /\ IsVerified(requests[r])
        /\ Len(requests[r].fetched[1].outputs) = 2
        /\ FirstMatch(requests[r].fetched[1].outputs, requests[r].request[1].merchantAddress) = 2
        /\ requests[r].fetched[1].outputs[1].value # requests[r].fetched[1].outputs[2].value
        /\ BigCmp(BigFromInt(requests[r].fetched[1].outputs[2].value),
                  requests[r].expectedAmountNanoErg[1].mag) = 1
        /\ requests[r].response.body.receivedAmount
              = nanoErgToErg(requests[r].fetched[1].outputs[2].value)

\* The request that has been answered.
HasResponse(rq) == rq.pc \in {"done", "unparsed"}

\* The codes of the error taxonomy: malformed input, the business
\* rejections and the upstream failures.
TaxonomyCodes ==
    {"INVALID_REQUEST", "INVALID_ADDRESS", "INVALID_AMOUNT",
     "INSUFFICIENT_CONFIRMATIONS", "WRONG_RECIPIENT", "AMOUNT_TOO_LOW",
     "TX_NOT_FOUND", "RATE_LIMITED", "API_UNAVAILABLE", "TIMEOUT", "CONNECTION_ERROR"}

\* The codes the server answers with besides those of the taxonomy.
OtherCodes == {"INVALID_TX_ID", "API_ERROR", "UNKNOWN_ERROR", "INTERNAL_ERROR", "INVALID_JSON"}

\* The 200 body with verified: true, sent for a Verified outcome.
IsSuccessShape(rq) ==
    /\ rq.response.status = 200
    /\ DOMAIN rq.response.body = {"verified", "txId", "confirmations", "receivedAmount", "message"}
    /\ rq.response.body.verified = TRUE
    /\ rq.pc = "done" /\ rq.fetched # <<>>
    /\ RefOutcomeOf(rq) = "VERIFIED"
    /\ rq.response.body.txId = rq.request[1].txId
    /\ rq.response.body.confirmations \in Nat
    /\ Len(rq.response.body.receivedAmount) >= FractionDigits + 2
    /\ rq.response.body.receivedAmount[Len(rq.response.body.receivedAmount) - FractionDigits] = "."

\* The failure body {success: false, error: {code, message}} with a code of
\* the given set.
IsFailureShape(rq, codes) ==
    /\ DOMAIN rq.response.body = {"success", "error"}
    /\ rq.response.body.success = FALSE
    /\ DOMAIN rq.response.body.error = {"code", "message"}
    /\ rq.response.body.error.code \in codes
    /\ rq.response.status # 200

\* C11 as stated: every response to POST /api/payments/verify is the
\* success body with verified: true, sent only for a Verified outcome, or
\* the failure body {success: false, error: {code, message}} whose code is
\* one of the taxonomy's.
C11_TwoShapesTaxonomyCodes ==
    \A r \in DOMAIN requests :
        HasResponse(requests[r]) =>
            IsSuccessShape(requests[r]) \/ IsFailureShape(requests[r], TaxonomyCodes)

\* C11 (amended): every response to POST /api/payments/verify is the
\* success body with verified: true, sent only for a Verified outcome, or
\* the failure body {success: false, error: {code, message}} whose code is
\* one of the taxonomy's or one of INVALID_TX_ID, API_ERROR, UNKNOWN_ERROR,
\* INTERNAL_ERROR and INVALID_JSON.
C11_TwoShapes ==
    \A r \in DOMAIN requests :
        HasResponse(requests[r]) =>
            IsSuccessShape(requests[r])
            \/ IsFailureShape(requests[r], TaxonomyCodes \cup OtherCodes)

\* a well-formed request whose txId is not 64 hex characters, answered with
\* the failure body and the code INVALID_TX_ID
C11_Witness ==
    \E r \in DOMAIN requests :
        /\ requests[r].pc = "done"
        /\ requests[r].getTransactionCalls = 1
        /\ IsFailureShape(requests[r], {"INVALID_TX_ID"})

\* The condition a failed explorer request signals.
FailureKind(error) ==
    IF error.hasResponse
    THEN (IF error.status = 404 THEN "not-found"
          ELSE IF error.status = 429 THEN "rate-limited"
          ELSE IF error.status \in {500, 502, 503} THEN "unavailable"
          ELSE "other")
    ELSE (IF error.code = "ECONNABORTED" THEN "timed-out"
          ELSE IF error.code \in {"ENOTFOUND", "ECONNREFUSED"} THEN "connection"
          ELSE "other")

\* The code and status documented for each condition.
KindCode ==
    [k \in {"not-found", "rate-limited", "unavailable", "timed-out", "connection"} |->
        CASE k = "not-found" -> [code |-> "TX_NOT_FOUND", status |-> 404]
          [] k = "rate-limited" -> [code |-> "RATE_LIMITED", status |-> 429]
          [] k = "unavailable" -> [code |-> "API_UNAVAILABLE", status |-> 503]
          [] k = "timed-out" -> [code |-> "TIMEOUT", status |-> 504]
          [] OTHER -> [code |-> "CONNECTION_ERROR", status |-> 503]]

\* C12: a failed explorer request is answered with exactly the error of its
\* condition - not-found TX_NOT_FOUND/404, unavailable API_UNAVAILABLE/503,
\* timed-out TIMEOUT/504, rate-limited RATE_LIMITED/429, connection failure
\* CONNECTION_ERROR/503 - no failure of another condition is given the same
\* code, and INSUFFICIENT_CONFIRMATIONS, WRONG_RECIPIENT and AMOUNT_TOO_LOW
\* are answered with status 400.
C12_FailureCodesDistinct ==
    \A r \in DOMAIN requests :
        /\ (requests[r].pc = "done" /\ requests[r].failure # <<>>) =>
              /\ FailureKind(requests[r].failure[1]) \in DOMAIN KindCode =>
                    /\ requests[r].response.body.error.code
                          = KindCode[FailureKind(requests[r].failure[1])].code
                    /\ requests[r].response.status
                          = KindCode[FailureKind(requests[r].failure[1])].status
              /\ \A other \in AxiosFailures :
                    FailureKind(other) # FailureKind(requests[r].failure[1]) =>
                        handleApiError(other).code # requests[r].response.body.error.code
        /\ (HasResponse(requests[r])
            /\ \E code \in BusinessRejections : IsRejected(requests[r], code)) =>
              requests[r].response.status = 400

\* the explorer answered 502 and the client is told API_UNAVAILABLE with 503
C12_Witness ==
    \E r \in DOMAIN requests :
        /\ requests[r].pc = "done"
        /\ requests[r].failure # <<>>
        /\ requests[r].failure[1].hasResponse
        /\ requests[r].failure[1].status = 502
        /\ IsRejected(requests[r], "API_UNAVAILABLE")
        /\ requests[r].response.status = 503

\* C13: for every positive finite amount, ergToNanoErg returns the
\* non-negative integer floor(erg * 10^9) of the exact product, never more.
C13_FloorOfExactProduct ==
    converter.op = "ergToNanoErg" =>
        /\ ~converter.result.throw
        /\ ~converter.result.neg
        /\ converter.result.mag = ExactNanoErgFloor(converter.erg)

\* The text of n / 10^9 with 9 fractional digits: the integer part n div
\* 10^9, a point, and n mod 10^9 padded with zeros to 9 digits.
FixedPointText(parts) ==
    (IF parts[1] = 0 THEN <<"0">> ELSE DigitsToString(BigToDigits(BigFromInt(parts[1]))))
    \o <<".">>
    \o DigitsToString([i \in 1..FractionDigits |->
                          (parts[2] \div 10^(FractionDigits - i)) % 10])

\* C15: for every non-negative integer n of NanoErgs, nanoErgToErg(n) is
\* the fixed-point text of n / 10^9 with exactly 9 fractional digits, none
\* of them lost.
C15_FixedPointText ==
    converter.op = "nanoErgToErg" => converter.result = FixedPointText(converter.parts)

\* C16: converting the text nanoErgToErg(n) back with ergToNanoErg yields n.
C16_RoundTrip ==
    converter.op = "roundTrip" =>
        /\ ~converter.result.throw
        /\ ~converter.result.neg
        /\ converter.result.mag = converter.nanoErg

\* C14: a request whose expected amount is a number that is not finite
\* (its other fields being well-formed) is rejected with INVALID_AMOUNT: no
\* integer amount is produced, no other fault is answered and the request
\* is not Verified.
C14_NonFiniteIsInvalidAmount ==
    \A r \in DOMAIN requests :
        (/\ requests[r].pc = "done"
         /\ requests[r].body.txId.t = "string" /\ requests[r].body.txId.s # <<>>
         /\ requests[r].body.merchantAddress.t = "string"
         /\ isValidAddress(requests[r].body.merchantAddress.s)
         /\ requests[r].body.expectedAmountErg.t = "number"
         /\ ~IsFinite(requests[r].body.expectedAmountErg.n))
        => /\ IsRejected(requests[r], "INVALID_AMOUNT")
           /\ requests[r].expectedAmountNanoErg = <<>>
           /\ ~IsVerified(requests[r])

\* The arguments of the verification a fetched request ran: the transaction
\* snapshot, the recipient and the expected amount.
VerifyArguments(rq) ==
    [transaction |-> rq.fetched[1], merchantAddress |-> rq.request[1].merchantAddress,
     expectedAmountErg |-> rq.request[1].expectedAmountErg]

AloneMatches(rq) ==
    /\ OutcomeOf(rq) = RefOutcomeOf(rq)
    /\ rq.request[1].txId = rq.body.txId.s
    /\ rq.request[1].merchantAddress = rq.body.merchantAddress.s
    /\ rq.request[1].expectedAmountErg = rq.body.expectedAmountErg.n
    /\ rq.fetched[1].id = rq.request[1].txId
    /\ IsVerified(rq) =>
          /\ rq.response.body.txId = rq.request[1].txId
          /\ rq.response.body.confirmations = rq.fetched[1].numConfirmations

\* C18: whatever the interleaving of the in-flight requests around the
\* fetch, a step of one request leaves every other request as it was, and
\* the request answered has the outcome of running alone on its own
\* snapshot, recipient and amount.
C18_RequestsIsolated ==
    [][\A r \in DOMAIN requests :
           requests'[r] # requests[r] =>
               /\ \A o \in DOMAIN requests \ {r} : requests'[o] = requests[o]
               /\ IsFetched(requests'[r]) =>
                     /\ AloneMatches(requests'[r])
                     /\ requests'[r].fetched[1] = explorer[requests[r].request[1].txId]]_vars

\* two requests answered from snapshots taken before and after a block,
\* for different recipients, with different outcomes
C18_Witness ==
    \E r1, r2 \in DOMAIN requests :
        /\ IsFetched(requests[r1]) /\ IsFetched(requests[r2])
        /\ requests[r1].fetched[1].numConfirmations # requests[r2].fetched[1].numConfirmations
        /\ requests[r1].request[1].merchantAddress # requests[r2].request[1].merchantAddress
        /\ IsVerified(requests[r1])
        /\ ~IsVerified(requests[r2])

\* C19: a verification call writes nothing that outlives it.  Every step of
\* a request leaves the configuration and the explorer's transactions as
\* they were; the transaction a call evaluates is the one the explorer
\* holds when the call fetches it, fetched once by that call; and once the
\* response is sent the request slot is empty again, with no transaction
\* id, transaction or result left in it.
C19_NothingOutlivesCall ==
    [][\A r \in DOMAIN requests :
           requests'[r] # requests[r] =>
               /\ MIN_CONFIRMATIONS' = MIN_CONFIRMATIONS
               /\ explorer' = explorer
               /\ HasResponse(requests[r]) => requests'[r] = Idle
               /\ IsFetched(requests'[r]) =>
                     /\ requests[r].pc = "fetching"
                     /\ requests'[r].fetched = <<explorer[requests[r].request[1].txId]>>
                     /\ requests'[r].getTransactionCalls = 1
                     /\ requests'[r].explorerRequests = 1]_vars

\* a call answered from a transaction that gained confirmations since it
\* was indexed, the explorer still holding that transaction
C19_Witness ==
    \E r \in DOMAIN requests :
        /\ IsFetched(requests[r])
        /\ requests[r].fetched[1].numConfirmations > 0
        /\ requests[r].fetched[1] = explorer[requests[r].request[1].txId]
        /\ requests[r].response.status = 200

\* the address differs from the recipient, in letter case or in leading or
\* trailing whitespace only
DiffersInCaseOrSpace(address, recipient) ==
    /\ address # recipient
    /\ ToLowerCase(Trim(address)) = ToLowerCase(Trim(recipient))

\* C20: the recipient scan compares addresses by exact equality.  A fetched
\* transaction with enough confirmations whose outputs all differ from the
\* expected recipient in letter case or in leading or trailing whitespace
\* only is answered WRONG_RECIPIENT, and a verified request has an output
\* whose address is the recipient character for character.
C20_ExactRecipientOnly ==
    \A r \in DOMAIN requests :
        IsFetched(requests[r]) =>
            LET outputs   == requests[r].fetched[1].outputs
                recipient == requests[r].request[1].merchantAddress
            IN  /\ (/\ requests[r].fetched[1].numConfirmations >= MIN_CONFIRMATIONS
                    /\ outputs # <<>>
                    /\ \A i \in 1..Len(outputs) :
                           DiffersInCaseOrSpace(outputs[i].address, recipient))
                   => IsRejected(requests[r], "WRONG_RECIPIENT")
                /\ IsVerified(requests[r]) =>
                       \E i \in 1..Len(outputs) : outputs[i].address = recipient

\* rejected with WRONG_RECIPIENT although one output pays the recipient's
\* address in the other letter case and another pays it padded with spaces,
\* each with the expected amount or more
C20_Witness ==
    \E r \in DOMAIN requests :
        /\ IsFetched(requests[r])
        /\ IsRejected(requests[r], "WRONG_RECIPIENT")
        /\ requests[r].request[1].merchantAddress = MERCHANT
        /\ \E i, j \in 1..Len(requests[r].fetched[1].outputs) :
               /\ requests[r].fetched[1].outputs[i].address = SENDER
               /\ requests[r].fetched[1].outputs[j].address = PADDED
               /\ requests[r].fetched[1].outputs[i].value = 1500000000

\* The fetched transaction pays the recipient the expected amount: its first
\* output to the recipient holds at least expectedAmountNanoErg.
PaysExpected(rq) ==
    /\ Matches(rq.fetched[1].outputs, rq.request[1].merchantAddress) # {}
    /\ ValueAtLeast(rq.fetched[1].outputs[FirstMatch(rq.fetched[1].outputs,
                                                       rq.request[1].merchantAddress)].value,
                    rq.expectedAmountNanoErg[1].mag)

\* C21: a fetched transaction that pays the merchant the expected amount is
\* answered with 200 and verified: true, with isConfirmed: false while it has
\* 0 confirmations and isConfirmed: true once it has at least 1.
C21_MempoolVerifiedUnconfirmed ==
    \A r \in DOMAIN requests :
        (IsFetched(requests[r]) /\ PaysExpected(requests[r]))
        => /\ IsVerified(requests[r])
           /\ "isConfirmed" \in DOMAIN requests[r].response.body
           /\ requests[r].response.body.isConfirmed
                 = (requests[r].fetched[1].numConfirmations >= 1)

\* The fixed recipient and expected amount of a verification.
RetryArguments(rq) ==
    [txId |-> rq.request[1].txId, merchantAddress |-> rq.request[1].merchantAddress,
     expectedAmountErg |-> rq.request[1].expectedAmountErg]

\* C23: retries of a verification with the same transaction id, recipient
\* and amount, while blocks are mined: when a call returns after an earlier
\* call returned an outcome other than INSUFFICIENT_CONFIRMATIONS, it returns
\* that same outcome (Verified stays Verified; WRONG_RECIPIENT and
\* AMOUNT_TOO_LOW stay and are never followed by Verified).
C23_StableUnderRetry ==
    [][\A earlier, later \in DOMAIN requests :
           (/\ earlier # later
            /\ IsFetched(requests[earlier])
            /\ requests[later].pc = "fetching"
            /\ IsFetched(requests'[later])
            /\ RetryArguments(requests[earlier]) = RetryArguments(requests'[later])
            /\ OutcomeOf(requests[earlier]) # "INSUFFICIENT_CONFIRMATIONS")
           => OutcomeOf(requests'[later]) = OutcomeOf(requests[earlier])]_vars

\* a retry verified on a later snapshot, with more confirmations, after the
\* earlier call was verified
C23_Witness ==
    \E earlier, later \in DOMAIN requests :
        /\ IsVerified(requests[earlier]) /\ IsVerified(requests[later])
        /\ IsFetched(requests[earlier]) /\ IsFetched(requests[later])
        /\ RetryArguments(requests[earlier]) = RetryArguments(requests[later])
        /\ requests[earlier].fetched[1].numConfirmations
              < requests[later].fetched[1].numConfirmations

\* The checks of validateVerificationRequest, each on its own field: the
\* check that fails on the body.
FailsCheck(body) ==
    [i \in 1..5 |->
        CASE i = 1 -> body.txId.t # "string" \/ body.txId.s = <<>>
          [] i = 2 -> body.merchantAddress.t # "string" \/ body.merchantAddress.s = <<>>
          [] i = 3 -> body.merchantAddress.t = "string" /\ ~isValidAddress(body.merchantAddress.s)
          [] i = 4 -> body.expectedAmountErg.t # "number"
          [] i = 5 -> body.expectedAmountErg.t = "number" /\ DoubleLeqZero(body.expectedAmountErg.n)]

CheckCode == <<"INVALID_REQUEST", "INVALID_REQUEST", "INVALID_ADDRESS", "INVALID_REQUEST", "INVALID_AMOUNT">>

FailedChecks(body) == {i \in 1..5 : FailsCheck(body)[i]}

FirstFailedCheck(body) == CHOOSE i \in FailedChecks(body) : \A j \in FailedChecks(body) : i <= j

\* the message names the given check
MessageNames(message, i) ==
    message.text =
        CASE i = 1 -> "Missing or invalid txId. Must be a string."
          [] i = 2 -> "Missing or invalid merchantAddress. Must be a string."
          [] i = 3 -> "Invalid Ergo address format. Mainnet addresses start with 9."
          [] i = 4 -> "Missing or invalid expectedAmountErg. Must be a number."
          [] i = 5 -> "expectedAmountErg must be greater than 0."

\* C24: a request on which some check of validateVerificationRequest fails
\* is rejected with the code and the message of the first failing check in
\* the order txId, merchantAddress, address format, expectedAmountErg type,
\* expectedAmountErg > 0, whatever the later fields hold, and nothing is
\* fetched for it.
C24_FirstFailingCheckDecides ==
    \A r \in DOMAIN requests :
        (requests[r].pc = "done" /\ FailedChecks(requests[r].body) # {})
        => /\ IsRejected(requests[r], CheckCode[FirstFailedCheck(requests[r].body)])
           /\ requests[r].response.status = 400
           /\ MessageNames(requests[r].response.body.error.message,
                           FirstFailedCheck(requests[r].body))
           /\ requests[r].getTransactionCalls = 0

\* a malformed address with a non-positive amount, answered INVALID_ADDRESS
C24_Witness ==
    \E r \in DOMAIN requests :
        /\ requests[r].pc = "done"
        /\ FailedChecks(requests[r].body) = {3, 5}
        /\ IsRejected(requests[r], "INVALID_ADDRESS")

(***************************************************************************)
(* Requests that differ in their transaction id only: well-formed ids,     *)
(* indexed or not, and ids that miss the 64 hexadecimal characters by      *)
(* their length or by one character.                                       *)
(***************************************************************************)
TxIdTexts ==
    {<<"x", "y", "z">>, Repeat("a", TxIdLength - 1), Repeat("a", TxIdLength + 1),
     Repeat("a", TxIdLength - 1) \o <<"g">>, <<" ">> \o Repeat("a", TxIdLength - 1),
     Repeat("0", TxIdLength), TX_INDEXED, TX_UNKNOWN}

TxIdBodies ==
    [txId : {Str(t) : t \in TxIdTexts}, merchantAddress : {Str(MERCHANT)},
     expectedAmountErg : {Num(DecToDouble(FALSE, 15, 1))}]

GetNext ==
    \/ \E r \in DOMAIN requests : VerifyPaymentOf(r, TxIdBodies)
    \/ \E r \in DOMAIN requests : TransactionFetched(r)
    \/ \E r \in DOMAIN requests : FetchFailed(r)
    \/ \E r \in DOMAIN requests : Close(r)
    \/ MineBlock

GetSpec == ConcInit /\ [][GetNext]_vars

\* a text of exactly 64 characters, each a decimal digit or a letter a-f, A-F
IsHex64(text) ==
    /\ Len(text) = 64
    /\ \A i \in 1..Len(text) :
           \/ \E d \in 1..10 : text[i] = DigitChars[d]
           \/ text[i] \in {"a", "b", "c", "d", "e", "f"}
           \/ text[i] \in {"A", "B", "C", "D", "E", "F"}

\* C25: a call of getTransaction with a txId that is not a 64-character
\* hexadecimal string ends with INVALID_TX_ID (status 400) and no explorer
\* request; an explorer request is sent only for a well-formed id, and is
\* sent for every well-formed id.
C25_MalformedTxIdNeverQueried ==
    \A r \in DOMAIN requests :
        (requests[r].pc \in {"fetching", "done"} /\ requests[r].getTransactionCalls = 1)
        => IF IsHex64(requests[r].request[1].txId)
           THEN requests[r].explorerRequests = 1
           ELSE /\ requests[r].pc = "done"
                /\ IsRejected(requests[r], "INVALID_TX_ID")
                /\ requests[r].response.status = 400
                /\ requests[r].explorerRequests = 0
                /\ requests[r].fetched = <<>>

\* a txId of 64 characters with one letter outside a-f, rejected unqueried
C25_Witness ==
    \E r \in DOMAIN requests :
        /\ requests[r].pc = "done"
        /\ requests[r].getTransactionCalls = 1
        /\ Len(requests[r].request[1].txId) = TxIdLength
        /\ ~IsHex64(requests[r].request[1].txId)
        /\ IsRejected(requests[r], "INVALID_TX_ID")
        /\ requests[r].explorerRequests = 0

(***************************************************************************)
(* Frontend: numbers and their decimal texts                               *)
(***************************************************************************)
\* x < y on doubles (false when either is NaN)
DoubleMagLess(x, y) ==
    IF y.m = <<>> THEN FALSE
    ELSE IF x.m = <<>> THEN TRUE
    ELSE x.e < y.e \/ (x.e = y.e /\ BigLess(x.m, y.m))

DoubleLess(x, y) ==
    CASE x.cls = "nan" \/ y.cls = "nan" -> FALSE
      [] x.cls = "inf" -> x.neg /\ ~(y.cls = "inf" /\ y.neg)
      [] y.cls = "inf" -> ~y.neg
      [] x.neg /\ ~y.neg -> ~(IsZero(x) /\ IsZero(y))
      [] ~x.neg /\ y.neg -> FALSE
      [] x.neg -> DoubleMagLess(y, x)
      [] OTHER -> DoubleMagLess(x, y)

\* isNaN(x)
IsNaN(x) == x.cls = "nan"

\* the number of characters of text after its decimal point
DecimalPlaces(text) ==
    IF \E i \in 1..Len(text) : text[i] = "."
    THEN Len(text) - (CHOOSE i \in 1..Len(text) : text[i] = ".")
    ELSE 0

\* text matches /^\d*\.?\d*$/
IsDecimalText(text) ==
    /\ \A i \in 1..Len(text) : text[i] = "." \/ \E d \in 1..10 : text[i] = DigitChars[d]
    /\ Cardinality({i \in 1..Len(text) : text[i] = "."}) <= 1

DecimalValue(digits, places) ==
    IF digits = <<>> THEN Zero(FALSE) ELSE RoundRatio(FALSE, digits, BigPow10(places), 0)

\* Number(text) of a text made of decimal digits and points, or the text
\* "NaN": the empty text is 0, a text with a digit and at most one point is
\* the nearest double, every other such text is NaN.
NumberOfString(text) ==
    IF text = <<>> THEN Zero(FALSE)
    ELSE IF ~IsDecimalText(text) \/ SelectSeq(text, IsDigitChar) = <<>> THEN NaN
    ELSE DecimalValue(DigitsToBig(SelectSeq(text, IsDigitChar)), DecimalPlaces(text))

\* a text of toFixed without its last character when f = 0
DropPoint(text, f) == IF f = 0 THEN SubSeq(text, 1, Len(text) - 1) ELSE text

\* the decimal text of x with f digits after the point (none and no point
\* for f = 0), x finite and not negative
DecimalText(x, f) == DropPoint(ToFixed(x, f), f)

\* the most digits after the point that Number.prototype.toString prints
\* for a double of at least 10^-6
MaxDecimalPlaces == 22

\* the shortest decimal text of x with at least f digits after the point
\* that reads back as x
RECURSIVE ShortestText(_, _)
ReadsBack(x, text, f) ==
    IF f >= MaxDecimalPlaces \/ NumberOfString(text) = x THEN text ELSE ShortestText(x, f + 1)

ShortestText(x, f) == ReadsBack(x, DecimalText(x, f), f)

\* x.toString() for NaN and for a finite x with 10^-6 <= x < 10^21: the
\* shortest decimal text that reads back as x
NumberToString(x) ==
    IF x.cls = "nan" THEN <<"N", "a", "N">>
    ELSE IF IsZero(x) THEN <<"0">>
    ELSE ShortestText(x, 0)

\* value.toString() of a bigint that is not negative
BigIntToString(mag) == IF mag = <<>> THEN <<"0">> ELSE DigitsToString(BigToDigits(mag))

\* BigInt(text) of a text of decimal digits
BigIntOfString(text) == [throw |-> FALSE, neg |-> FALSE, mag |-> DigitsToBig(text)]

\* a + b on bigints that are not negative
BigIntAdd(a, b) == [throw |-> FALSE, neg |-> FALSE, mag |-> BigAdd(a.mag, b.mag)]

\* a - b on bigints, b not negative
BigIntSub(a, b) ==
    IF a.neg /\ a.mag # <<>> THEN [throw |-> FALSE, neg |-> TRUE, mag |-> BigAdd(a.mag, b.mag)]
    ELSE IF BigLess(a.mag, b.mag) THEN [throw |-> FALSE, neg |-> TRUE, mag |-> BigSub(b.mag, a.mag)]
    ELSE [throw |-> FALSE, neg |-> FALSE, mag |-> BigSub(a.mag, b.mag)]

\* text.includes(word)
Includes(text, word) ==
    \E i \in 1..(Len(text) - Len(word) + 1) : SubSeq(text, i, i + Len(word) - 1) = word

(***************************************************************************)
(* utils/payment: sendErgoPayment and the wallet API it drives             *)
(***************************************************************************)
\* 1_000_000n, the minimum value of a box (0.001 ERG)
MIN_BOX_VALUE == 1000000

\* 1_100_000n, the transaction fee
TX_FEE == 1100000

BigIntNat(n) == [throw |-> FALSE, neg |-> FALSE, mag |-> BigFromInt(n)]

\* new WalletError(message, code)
WalletError(message, code) ==
    [name |-> "WalletError", isError |-> TRUE, message |-> message, code |-> code]

\* the text a message carries after its fixed part (none of the fixed parts
\* written in utils/payment holds the word "rejected")
MessageDetail(error) == IF "detail" \in DOMAIN error.message THEN error.message.detail ELSE <<>>

Rejected == <<"r", "e", "j", "e", "c", "t", "e", "d">>

\* what the wallet API throws: an Error naming a rejection, an Error that
\* spells it otherwise, another Error, or a plain object
WalletThrows ==
    {[name |-> "Error", isError |-> TRUE,
      message |-> [text |-> "", detail |-> <<"U", "s", "e", "r", " ">> \o Rejected]],
     [name |-> "Error", isError |-> TRUE,
      message |-> [text |-> "", detail |-> <<"R", "e", "f", "u", "s", "e", "d">>]],
     [name |-> "object", isError |-> FALSE, message |-> [text |-> "", detail |-> Rejected]]}

\* the catch block of sendErgoPayment: the error it throws for a caught one
sendErgoPaymentCatch(error) ==
    IF error.isError /\ Includes(MessageDetail(error), Rejected)
    THEN WalletError([text |-> "Transaction was rejected by the user."], "TX_REJECTED")
    ELSE IF error.name = "WalletError" THEN error
    ELSE WalletError([text |-> "Payment failed: ",
                      cause |-> IF error.isError THEN error.message
                                ELSE [text |-> "Unknown error"]],
                     "PAYMENT_FAILED")

\* BigInt(Math.floor(amountErg * Number(NANOERGS_PER_ERG)))
amountNanoErgOf(amountErg) ==
    BigIntOf(MathFloor(DoubleMul(amountErg, NumberOfBigInt(BigFromInt(NanoErgsPerErg)))))

\* A call of sendErgoPayment: its arguments, the await it stands at and what
\* it has asked of the wallet so far.
PaymentCall(caller, recipientAddress, amountErg) ==
    [caller |-> caller, recipientAddress |-> recipientAddress, amountErg |-> amountErg,
     pc |-> "get_utxos", amountNanoErg |-> <<>>, utxoRequests |-> <<>>, utxos |-> <<>>,
     changeAddress |-> <<>>, signRequests |-> <<>>, signedTx |-> <<>>,
     submitRequests |-> <<>>, result |-> <<>>, error |-> <<>>]

\* the call throws: its promise rejects with what the catch block makes of
\* the error
paymentThrows(p, error) == [p EXCEPT !.pc = "rejected", !.error = <<sendErgoPaymentCatch(error)>>]

\* `Amount too small. Minimum is ${Number(MIN_BOX_VALUE) / Number(NANOERGS_PER_ERG)} ERG`
amountTooSmallError ==
    WalletError([text |-> "Amount too small. Minimum is ",
                 detail |-> NumberToString(DoubleDiv(NumberOfBigInt(BigFromInt(MIN_BOX_VALUE)),
                                                     NumberOfBigInt(BigFromInt(NanoErgsPerErg))))
                            \o <<" ", "E", "R", "G">>],
                "AMOUNT_TOO_SMALL")

\* the amount check and the call of api.get_utxos(totalNeeded.toString())
utxosRequested(p, amountNanoErg) ==
    IF BigIntLess(amountNanoErg, BigIntNat(MIN_BOX_VALUE))
    THEN paymentThrows([p EXCEPT !.amountNanoErg = <<amountNanoErg>>], amountTooSmallError)
    ELSE [p EXCEPT !.amountNanoErg = <<amountNanoErg>>,
                   !.utxoRequests = <<BigIntToString(BigIntAdd(amountNanoErg, BigIntNat(TX_FEE)).mag)>>]

\* sendErgoPayment(api, recipientAddress, amountErg) up to its first await
convertedPayment(p, amountNanoErg) ==
    IF amountNanoErg.throw THEN paymentThrows(p, [name |-> "RangeError", isError |-> TRUE,
                                                  message |-> amountNanoErg.error.message])
    ELSE utxosRequested(p, amountNanoErg)

sendErgoPaymentStart(caller, recipientAddress, amountErg) ==
    convertedPayment(PaymentCall(caller, recipientAddress, amountErg), amountNanoErgOf(amountErg))

\* utxos.reduce((sum, box) => sum + BigInt(box.value), 0n)
RECURSIVE inputValueOf(_)
inputValueOf(utxos) ==
    IF utxos = <<>> THEN BigIntNat(0)
    ELSE BigIntAdd(inputValueOf(Tail(utxos)), BigIntOfString(Head(utxos).value))

insufficientFundsError(text) == WalletError([text |-> text], "INSUFFICIENT_FUNDS")

\* Mutant of changeValueChecked: the change is not compared with 0n
changeValueChecked_NoCheck(p, changeValue) == [p EXCEPT !.pc = "get_change_address"]

\* changeValue < 0n throws; otherwise api.get_change_address() is called
changeValueChecked(p, changeValue) ==
    IF changeValue.neg /\ changeValue.mag # <<>>
    THEN paymentThrows(p, insufficientFundsError("Insufficient funds to cover amount and fees."))
    ELSE [p EXCEPT !.pc = "get_change_address"]

\* api.get_utxos resolved: utxos is <<>> for undefined, or one list of boxes
utxosReturned(p, utxos) ==
    IF utxos = <<>> \/ utxos[1] = <<>>
    THEN paymentThrows([p EXCEPT !.utxos = utxos],
                       insufficientFundsError("Insufficient funds or no UTXOs available."))
    ELSE changeValueChecked([p EXCEPT !.utxos = utxos],
                            BigIntSub(BigIntSub(inputValueOf(utxos[1]), p.amountNanoErg[1]),
                                      BigIntNat(TX_FEE)))

\* the height written into the boxes built
CurrentHeight == 1200000

Box(value, ergoTree) ==
    [boxId |-> <<>>, value |-> value, ergoTree |-> ergoTree, assets |-> <<>>,
     creationHeight |-> CurrentHeight]

changeValueOf(p) ==
    BigIntSub(BigIntSub(inputValueOf(p.utxos[1]), p.amountNanoErg[1]), BigIntNat(TX_FEE))

\* the unsigned transaction: the inputs, the output to the recipient and the
\* change output when the change is at least MIN_BOX_VALUE
unsignedTxOf(p, changeAddress) ==
    [inputs |-> p.utxos[1],
     outputs |-> <<Box(BigIntToString(p.amountNanoErg[1].mag), p.recipientAddress)>>
                 \o (IF ~BigIntLess(changeValueOf(p), BigIntNat(MIN_BOX_VALUE))
                     THEN <<Box(BigIntToString(changeValueOf(p).mag), changeAddress)>>
                     ELSE <<>>)]

\* api.get_change_address() resolved: api.sign_tx(unsignedTx) is called
changeAddressReturned(p, changeAddress) ==
    [p EXCEPT !.pc = "sign_tx", !.changeAddress = <<changeAddress>>,
              !.signRequests = <<unsignedTxOf(p, changeAddress)>>]

\* api.sign_tx resolved: api.submit_tx(signedTx) is called
signReturned(p, signedTx) ==
    [p EXCEPT !.pc = "submit_tx", !.signedTx = <<signedTx>>, !.submitRequests = <<signedTx>>]

\* api.submit_tx resolved: the call returns its PaymentResult
submitReturned(p, txId) ==
    [p EXCEPT !.pc = "resolved",
              !.result = <<[txId |-> txId, amount |-> NumberToString(p.amountErg),
                            recipient |-> p.recipientAddress]>>]

(***************************************************************************)
(* components/SigmaPayWidget                                               *)
(***************************************************************************)
\* "9hA8MkqGy78oG84S94K74vWvP58gC465e9d48b79"
MERCHANT_ADDRESS ==
    <<"9", "h", "A", "8", "M", "k", "q", "G", "y", "7", "8", "o", "G", "8",
      "4", "S", "9", "4", "K", "7", "4", "v", "W", "v", "P", "5", "8", "g",
      "C", "4", "6", "5", "e", "9", "d", "4", "8", "b", "7", "9">>

\* MIN_PAYMENT_AMOUNT = 0.001
MIN_PAYMENT_AMOUNT == DecToDouble(FALSE, 1, 3)

PaymentAssets == {"ERG", "SigUSD"}

NoMessage == [text |-> ""]

isIntentMode(w) == w.paymentIntent # <<>>

effectiveRecipient(w) ==
    IF isIntentMode(w) THEN w.paymentIntent[1].recipientAddress ELSE MERCHANT_ADDRESS

\* the effect on [paymentState.amount, paymentState.asset, prices]: the USD
\* equivalent, null (<<>>) without a positive amount or without prices
usdEquivalentOf(paymentState, prices) ==
    IF \/ paymentState.amount = <<>>
       \/ IsNaN(NumberOfString(paymentState.amount))
       \/ DoubleLeqZero(NumberOfString(paymentState.amount))
       \/ prices = <<>>
    THEN <<>>
    ELSE <<DoubleMul(NumberOfString(paymentState.amount), prices[1][paymentState.asset])>>

\* The render after a state change: the USD effect runs when one of its
\* dependencies changed (prices is a new object whenever it is set).
usdEffect(old, new, pricesSet) ==
    IF \/ pricesSet
       \/ old.paymentState.amount # new.paymentState.amount
       \/ old.paymentState.asset # new.paymentState.asset
    THEN [new EXCEPT !.paymentState.usdEquivalent = usdEquivalentOf(new.paymentState, new.prices)]
    ELSE new

\* the effect on [paymentIntent, isIntentMode]: the payment state and the
\* invoice state are set from the intent
intentEffect(w, clock) ==
    IF ~isIntentMode(w) THEN w
    ELSE LET intent == w.paymentIntent[1]
             set    == [w EXCEPT !.paymentState.asset = intent.asset,
                                 !.paymentState.amount = NumberToString(intent.amount)]
         IN  IF intent.expiresAt = <<>> THEN set
             ELSE IF intent.expiresAt[1] - clock <= 0
             THEN [set EXCEPT !.invoiceState = [expired |-> TRUE, timeRemaining |-> <<0>>]]
             ELSE [set EXCEPT !.invoiceState =
                       [expired |-> FALSE, timeRemaining |-> <<intent.expiresAt[1] - clock>>]]

\* the countdown interval exists while the effect on [isIntentMode,
\* paymentIntent?.expiresAt, invoiceState.expired] keeps it
timerRuns(w) ==
    /\ isIntentMode(w)
    /\ w.paymentIntent[1].expiresAt # <<>>
    /\ ~w.invoiceState.expired

\* the callback of the countdown interval
timerTick(w, clock) ==
    IF w.paymentIntent[1].expiresAt[1] - clock <= 0
    THEN [w EXCEPT !.invoiceState = [expired |-> TRUE, timeRemaining |-> <<0>>]]
    ELSE [w EXCEPT !.invoiceState.timeRemaining = <<w.paymentIntent[1].expiresAt[1] - clock>>]

handleAssetChange(w, asset) ==
    IF isIntentMode(w) THEN w
    ELSE usdEffect(w, [w EXCEPT !.paymentState.asset = asset,
                                !.paymentState.usdEquivalent = <<>>], FALSE)

handleAmountChange(w, value) ==
    IF isIntentMode(w) THEN w
    ELSE IF value = <<>> \/ IsDecimalText(value)
    THEN usdEffect(w, [w EXCEPT !.paymentState.amount = value], FALSE)
    ELSE w

handleReset(w) ==
    IF isIntentMode(w)
    THEN [w EXCEPT !.status = "idle", !.txId = <<>>, !.errorMessage = NoMessage]
    ELSE usdEffect(w, [w EXCEPT !.paymentState.amount = <<>>,
                                !.paymentState.usdEquivalent = <<>>,
                                !.status = "idle", !.txId = <<>>, !.errorMessage = NoMessage],
                   FALSE)

\* the amount handlePay and isPayButtonDisabled read
currentAmount(w) ==
    IF isIntentMode(w) THEN NumberToString(w.paymentIntent[1].amount) ELSE w.paymentState.amount

currentAsset(w) == IF isIntentMode(w) THEN w.paymentIntent[1].asset ELSE w.paymentState.asset

\* isNaN(parseFloat(amount)) || parseFloat(amount) < MIN_PAYMENT_AMOUNT
belowMinimum(parsed) == IsNaN(parsed) \/ DoubleLess(parsed, MIN_PAYMENT_AMOUNT)

amountBelowMinimum(amount) == amount = <<>> \/ belowMinimum(NumberOfString(amount))

\* Mutant of isPayButtonDisabled: the status is not looked at
isPayButtonDisabled_IgnoresStatus(w) ==
    IF isIntentMode(w) /\ w.invoiceState.expired THEN TRUE
    ELSE IF isIntentMode(w) THEN amountBelowMinimum(currentAmount(w))
    ELSE \/ amountBelowMinimum(currentAmount(w))
         \/ w.paymentState.loadingPrice
         \/ w.paymentState.usdEquivalent = <<>>

isPayButtonDisabled(w) ==
    IF isIntentMode(w) /\ w.invoiceState.expired THEN TRUE
    ELSE IF isIntentMode(w) THEN w.status # "idle" \/ amountBelowMinimum(currentAmount(w))
    ELSE \/ w.status # "idle"
         \/ amountBelowMinimum(currentAmount(w))
         \/ w.paymentState.loadingPrice
         \/ w.paymentState.usdEquivalent = <<>>

handlePayFailed(w, message) == [w EXCEPT !.errorMessage = message, !.status = "error"]

\* what handlePay keeps across its awaits
PayCaller(w) ==
    [kind |-> "handlePay", recipient |-> effectiveRecipient(w), amount |-> currentAmount(w),
     asset |-> currentAsset(w), paymentIntent |-> w.paymentIntent, step |-> "sendErgoPayment",
     verifyRequest |-> <<>>]

\* the body of axios.post(`${API_BASE_URL}/payments/verify`, ...)
verifyRequestOf(caller, txId) ==
    [txId |-> Str(txId), merchantAddress |-> Str(caller.recipient),
     expectedAmountErg |-> IF caller.asset = "ERG" THEN Num(NumberOfString(caller.amount))
                           ELSE Undefined,
     expectedAmountSigUSD |-> IF caller.asset = "SigUSD" THEN Num(NumberOfString(caller.amount))
                              ELSE Undefined,
     asset |-> caller.asset,
     intentId |-> IF caller.paymentIntent # <<>> THEN <<caller.paymentIntent[1].intentId>>
                  ELSE <<>>]

\* handlePay after the await of sendErgoPayment: the transaction id is
\* recorded and the verification request is sent, or the catch block runs
paymentSettledWidget(w, p) ==
    IF p.caller.kind # "handlePay" THEN w
    ELSE IF p.pc = "resolved" THEN [w EXCEPT !.txId = p.result[1].txId, !.status = "verifying"]
    ELSE IF p.pc = "rejected" THEN handlePayFailed(w, p.error[1].message)
    ELSE w

paymentSettledCall(p) ==
    IF p.caller.kind # "handlePay" THEN p
    ELSE IF p.pc = "resolved"
    THEN [p EXCEPT !.caller.step = "verify",
                   !.caller.verifyRequest = <<verifyRequestOf(p.caller, p.result[1].txId)>>]
    ELSE IF p.pc = "rejected" THEN [p EXCEPT !.caller.step = "end"]
    ELSE p

\* the calls that are still awaited, and those nobody awaits: a call whose
\* handlePay has returned is dropped
callsUnderWay(calls) ==
    SelectSeq(calls, LAMBDA p : ~(p.caller.kind = "handlePay" /\ p.caller.step = "end"))

\* handlePay from its call to its first await, or to its return
handlePayCalls(w, wallet, calls, amount) ==
    IF isIntentMode(w) /\ w.invoiceState.expired
    THEN [widget |-> handlePayFailed(w, [text |-> "This invoice has expired. Please request a new one."]),
          payments |-> calls]
    ELSE IF amountBelowMinimum(amount)
    THEN [widget |-> handlePayFailed(w, [text |-> "Minimum amount is ",
                                         amount |-> NumberToString(MIN_PAYMENT_AMOUNT),
                                         asset |-> currentAsset(w)]),
          payments |-> calls]
    ELSE IF wallet = <<>>
    THEN [widget |-> handlePayFailed(w, [text |-> "Wallet not connected"]), payments |-> calls]
    ELSE IF ~isIntentMode(w) /\ (w.paymentState.loadingPrice \/ w.paymentState.usdEquivalent = <<>>)
    THEN [widget |-> handlePayFailed(w, [text |-> "Please wait for price to load"]),
          payments |-> calls]
    ELSE LET p == sendErgoPaymentStart(PayCaller(w), effectiveRecipient(w), NumberOfString(amount))
         IN  [widget |-> paymentSettledWidget([w EXCEPT !.status = "signing",
                                                          !.errorMessage = NoMessage], p),
              payments |-> callsUnderWay(Append(calls, paymentSettledCall(p)))]

handlePay(w, wallet, calls) == handlePayCalls(w, wallet, calls, currentAmount(w))

(***************************************************************************)
(* sendErgoPayment, step by step                                           *)
(***************************************************************************)
\* the calls of sendErgoPayment a caller other than the widget makes
MaxCalls == 1

\* the calls of sendErgoPayment of the widget under way at once
MaxPayments == 2

\* the boxes of one answer of api.get_utxos
MaxUtxos == 2

CharsOf(n) == BigIntToString(BigFromInt(n))

\* 0.0005, 0.001 and 1.5 ERG, -1.5 ERG and NaN
PayAmounts ==
    {DecToDouble(FALSE, 5, 4), DecToDouble(FALSE, 1, 3), DecToDouble(FALSE, 15, 1),
     DecToDouble(TRUE, 15, 1), NaN}

\* the values of the boxes the wallet holds: 0.0011 and 1.5021 ERG
UtxoValues == {CharsOf(TX_FEE), CharsOf(1502100000)}

UtxoBoxes == {Box(value, SENDER) : value \in UtxoValues}

\* what api.get_utxos resolves with: undefined (<<>>) or a list of boxes
UtxoAnswers == {<<>>} \cup {<<list>> : list \in UNION {[1..n -> UtxoBoxes] : n \in 0..MaxUtxos}}

\* what api.sign_tx resolves with for a transaction
SignedTx(tx) == [inputs |-> tx.inputs, outputs |-> tx.outputs, signed |-> TRUE]

\* the call stands at an await of the wallet
AwaitsWallet(p) == p.pc \in {"get_utxos", "get_change_address", "sign_tx", "submit_tx"}

\* The promise of call i settles or goes on to its next await; a settled
\* promise resumes the handlePay that awaits it in the same step.
PaymentStep(i, p) ==
    /\ payments' = callsUnderWay([payments EXCEPT ![i] = paymentSettledCall(p)])
    /\ widget' = IF widget.mounted THEN paymentSettledWidget(widget, p) ELSE widget

\* sendErgoPayment(api, recipientAddress, amountErg) is called by a caller
\* other than the widget.
SendErgoPaymentCalled ==
    /\ Len(payments) < MaxCalls
    /\ \E amountErg \in PayAmounts :
           payments' = Append(payments,
                              sendErgoPaymentStart([kind |-> "direct"], MERCHANT_ADDRESS, amountErg))
    /\ UNCHANGED <<serverVars, now, provider, widget>>

\* api.get_utxos resolves.
UtxosReturned(answers) ==
    \E i \in 1..Len(payments) :
        /\ payments[i].pc = "get_utxos"
        /\ \E utxos \in answers : PaymentStep(i, utxosReturned(payments[i], utxos))
        /\ UNCHANGED <<serverVars, now, provider>>

\* api.get_change_address resolves.
ChangeAddressReturned ==
    \E i \in 1..Len(payments) :
        /\ payments[i].pc = "get_change_address"
        /\ PaymentStep(i, changeAddressReturned(payments[i], SENDER))
        /\ UNCHANGED <<serverVars, now, provider>>

\* api.sign_tx resolves with the signed transaction.
SignReturned ==
    \E i \in 1..Len(payments) :
        /\ payments[i].pc = "sign_tx"
        /\ PaymentStep(i, signReturned(payments[i], SignedTx(payments[i].signRequests[1])))
        /\ UNCHANGED <<serverVars, now, provider>>

\* api.submit_tx resolves with the transaction id.
SubmitReturned ==
    \E i \in 1..Len(payments) :
        /\ payments[i].pc = "submit_tx"
        /\ PaymentStep(i, submitReturned(payments[i], TX_INDEXED))
        /\ UNCHANGED <<serverVars, now, provider>>

\* The wallet call awaited rejects.
WalletCallFailed(errors) ==
    \E i \in 1..Len(payments) :
        /\ AwaitsWallet(payments[i])
        /\ \E error \in errors : PaymentStep(i, paymentThrows(payments[i], error))
        /\ UNCHANGED <<serverVars, now, provider>>

PayInit == ConvInit

PayNext ==
    \/ SendErgoPaymentCalled
    \/ UtxosReturned(UtxoAnswers)
    \/ ChangeAddressReturned
    \/ SignReturned
    \/ SubmitReturned
    \/ WalletCallFailed(WalletThrows)

PaySpec == PayInit /\ [][PayNext]_vars

\* the inputs of the call cover amount + TX_FEE
InputsCover(p) ==
    /\ p.utxos # <<>>
    /\ p.amountNanoErg # <<>>
    /\ ~BigIntLess(inputValueOf(p.utxos[1]), BigIntAdd(p.amountNanoErg[1], BigIntNat(TX_FEE)))

MaxWalletCalls == 4

\* WalletState after useState: nothing connected
WalletStateInitial ==
    [isConnected |-> FALSE, isConnecting |-> FALSE, address |-> <<>>, balance |-> <<>>,
     wallet |-> <<>>, error |-> <<>>, isNautilusAvailable |-> FALSE]

\* what the wallet answers to get_used_addresses, get_unused_addresses and
\* get_balance
ApiAnswers ==
    {[used |-> <<SENDER>>, unused |-> <<>>, balance |-> CharsOf(1502100000)],
     [used |-> <<>>, unused |-> <<MERCHANT>>, balance |-> <<"0">>]}

\* addresses[0] || (await api.get_unused_addresses())[0]
addressOf(answer) ==
    IF answer.used # <<>> THEN <<answer.used[1]>>
    ELSE IF answer.unused # <<>> THEN <<answer.unused[1]>>
    ELSE <<>>

\* (Number(balanceNanoErg) / Number(NANOERGS_PER_ERG)).toFixed(4)
balanceErgOf(balanceNanoErg) ==
    ToFixed(DoubleDiv(NumberOfString(balanceNanoErg), NumberOfBigInt(BigFromInt(NanoErgsPerErg))), 4)

\* the WalletContext getWalletContext() returns
walletContextOf(answer) ==
    [api |-> "ErgoAPI", address |-> addressOf(answer), balance |-> balanceErgOf(answer.balance)]

\* the catch block of getWalletContext
getWalletContextCatch(error) ==
    IF error.name = "WalletError" THEN error
    ELSE WalletError([text |-> "Failed to connect to Nautilus: ",
                      cause |-> IF error.isError THEN error.message
                                ELSE [text |-> "Unknown error"]],
                     "CONNECTION_FAILED")

connectionRejectedError ==
    WalletError([text |-> "User rejected the connection request."], "CONNECTION_REJECTED")

\* A call of connect(), disconnect() or checkExistingConnection(): the await
\* it stands at, and the number of disconnect() calls that had completed when
\* it was made.
WalletCall(fn, pc, completed) == [fn |-> fn, pc |-> pc, since |-> completed]

\* the effect that runs checkExistingConnection on mount, up to its first
\* await or its return
checkExistingConnectionStart(storage, nautilus) ==
    IF ~storage \/ ~nautilus.installed THEN <<>>
    ELSE <<WalletCall("checkExistingConnection", "isConnected", 0)>>

\* the provider after its first render and its mount effects
MountedProvider(storage, nautilus) ==
    [mounted |-> TRUE, state |-> WalletStateInitial, storage |-> storage,
     nautilus |-> nautilus, timer |-> TRUE,
     calls |-> checkExistingConnectionStart(storage, nautilus), disconnects |-> 0,
     log |-> <<>>]

callEnds(pr, i) == [pr EXCEPT !.calls[i].pc = "done"]

\* checkExistingConnection after await isWalletConnected()
stillConnectedReturned(pr, i, stillConnected) ==
    IF stillConnected
    THEN [pr EXCEPT !.state.isConnecting = TRUE, !.calls[i].pc = "nautilus.connect"]
    ELSE callEnds([pr EXCEPT !.storage = FALSE, !.state.isConnecting = FALSE], i)

\* connect() and checkExistingConnection after await getWalletContext()
\* resolved: the state is set, connect() also sets the storage flag, and the
\* finally block clears isConnecting
contextReturned(pr, i, context) ==
    callEnds([pr EXCEPT !.state.wallet = <<context>>,
                        !.state.address = context.address,
                        !.state.balance = <<context.balance>>,
                        !.state.isConnected = TRUE,
                        !.state.error = IF pr.calls[i].fn = "connect" THEN @ ELSE <<>>,
                        !.storage = IF pr.calls[i].fn = "connect" THEN TRUE ELSE @,
                        !.log = IF pr.calls[i].fn = "connect" THEN Append(@, "Connected") ELSE @,
                        !.state.isConnecting = FALSE], i)

\* connect() and checkExistingConnection after await getWalletContext()
\* rejected
contextFailed(pr, i, error) ==
    IF pr.calls[i].fn = "connect"
    THEN callEnds([pr EXCEPT !.state.error = <<getWalletContextCatch(error).message>>,
                             !.state.isConnecting = FALSE], i)
    ELSE callEnds([pr EXCEPT !.storage = FALSE, !.state.isConnecting = FALSE], i)

\* connect() up to its first await, or to its return
connect(pr) ==
    IF ~pr.nautilus.installed
    THEN [pr EXCEPT !.state.error =
              <<[text |-> "Nautilus wallet not found. Please install the browser extension."]>>,
              !.calls = Append(@, WalletCall("connect", "done", pr.disconnects))]
    ELSE [pr EXCEPT !.state.isConnecting = TRUE, !.state.error = <<>>,
                    !.calls = Append(@, WalletCall("connect", "nautilus.connect", pr.disconnects))]

\* disconnect() up to its await of disconnectWallet()
disconnect(pr) ==
    [pr EXCEPT !.calls = Append(@, WalletCall("disconnect",
                                              IF pr.nautilus.installed THEN "nautilus.disconnect"
                                              ELSE "disconnectWallet",
                                              pr.disconnects))]

\* disconnect() after await disconnectWallet(): the state is reset and the
\* storage flag removed
disconnected(pr, i) ==
    callEnds([pr EXCEPT !.state.wallet = <<>>, !.state.address = <<>>, !.state.balance = <<>>,
                        !.state.isConnected = FALSE, !.state.error = <<>>,
                        !.storage = FALSE, !.disconnects = @ + 1,
                        !.log = Append(@, "Disconnected")], i)

\* The 100 ms timer set on mount fires.
NautilusChecked ==
    /\ provider.mounted /\ provider.timer
    /\ provider' = [provider EXCEPT !.timer = FALSE,
                                    !.state.isNautilusAvailable = provider.nautilus.installed]
    /\ UNCHANGED <<serverVars, now, widget, payments>>

\* A Connect button is clicked (WalletConnect or the widget): rendered while
\* not connected, disabled while connecting.
ConnectClick ==
    /\ provider.mounted
    /\ ~provider.state.isConnected /\ ~provider.state.isConnecting
    /\ Len(provider.calls) < MaxWalletCalls
    /\ provider' = connect(provider)
    /\ UNCHANGED <<serverVars, now, widget, payments>>

\* Disconnect is clicked in the dropdown of WalletConnect, rendered while
\* connected.
DisconnectClick ==
    /\ provider.mounted
    /\ provider.state.isConnected
    /\ Len(provider.calls) < MaxWalletCalls
    /\ provider' = disconnect(provider)
    /\ UNCHANGED <<serverVars, now, widget, payments>>

\* nautilus.isConnected() settles: isWalletConnected() returns its answer,
\* or false when it threw.
IsConnectedReturned ==
    \E i \in 1..Len(provider.calls) :
        /\ provider.calls[i].pc = "isConnected"
        /\ \E threw \in BOOLEAN :
               provider' = stillConnectedReturned(provider, i,
                                                  ~threw /\ provider.nautilus.connected)
        /\ UNCHANGED <<serverVars, now, widget, payments>>

\* nautilus.connect() settles: the user approves, refuses, or the extension
\* throws.
NautilusConnectReturned ==
    \E i \in 1..Len(provider.calls) :
        /\ provider.calls[i].pc = "nautilus.connect"
        /\ \/ provider' = [provider EXCEPT !.nautilus.connected = TRUE, !.calls[i].pc = "api"]
           \/ provider' = contextFailed(provider, i, connectionRejectedError)
           \/ \E error \in WalletThrows : provider' = contextFailed(provider, i, error)
        /\ UNCHANGED <<serverVars, now, widget, payments>>

\* getContext(), get_used_addresses(), get_unused_addresses() and
\* get_balance() have resolved: getWalletContext() returns.
WalletContextReturned ==
    \E i \in 1..Len(provider.calls) :
        /\ provider.calls[i].pc = "api"
        /\ \E answer \in ApiAnswers :
               provider' = contextReturned(provider, i, walletContextOf(answer))
        /\ UNCHANGED <<serverVars, now, widget, payments>>

\* One of the calls of the wallet API in getWalletContext() rejects.
WalletContextFailed ==
    \E i \in 1..Len(provider.calls) :
        /\ provider.calls[i].pc = "api"
        /\ \E error \in WalletThrows : provider' = contextFailed(provider, i, error)
        /\ UNCHANGED <<serverVars, now, widget, payments>>

\* disconnectWallet() returns: nautilus.disconnect() resolved, or threw and
\* the error was ignored.
DisconnectReturned ==
    \E i \in 1..Len(provider.calls) :
        /\ provider.calls[i].pc \in {"nautilus.disconnect", "disconnectWallet"}
        /\ \E threw \in BOOLEAN :
               provider' = disconnected(
                   [provider EXCEPT !.nautilus.connected =
                        IF threw \/ provider.calls[i].pc = "disconnectWallet" THEN @ ELSE FALSE],
                   i)
        /\ UNCHANGED <<serverVars, now, widget, payments>>

WalletInit ==
    /\ MIN_CONFIRMATIONS = MinConfirmationsOf(<<>>)
    /\ explorer = <<>>
    /\ requests = <<>>
    /\ converter = NoCall
    /\ now = 0
    /\ provider \in {MountedProvider(storage, nautilus) :
                        storage \in BOOLEAN,
                        nautilus \in [installed : BOOLEAN, connected : BOOLEAN]}
    /\ widget = NotRendered
    /\ payments = <<>>

WalletNext ==
    \/ NautilusChecked
    \/ ConnectClick
    \/ DisconnectClick
    \/ IsConnectedReturned
    \/ NautilusConnectReturned
    \/ WalletContextReturned
    \/ WalletContextFailed
    \/ DisconnectReturned

WalletSpec == WalletInit /\ [][WalletNext]_vars

\* wallet, address and balance are null, isConnected is false and the
\* storage flag is absent
IsDisconnected(pr) ==
    /\ ~pr.state.isConnected
    /\ pr.state.wallet = <<>> /\ pr.state.address = <<>> /\ pr.state.balance = <<>>
    /\ ~pr.storage

\* connect() was called after the last disconnect() completed
ConnectCalledSince(pr) ==
    \E i \in 1..Len(pr.calls) : pr.calls[i].fn = "connect" /\ pr.calls[i].since = pr.disconnects

\* C30: once a disconnect() has completed, the provider is disconnected
\* (isConnected false; wallet, address and balance null; the storage flag
\* removed) as long as connect() has not been called again.
C30_DisconnectedUntilConnect ==
    (provider.mounted /\ provider.disconnects > 0 /\ ~ConnectCalledSince(provider))
        => IsDisconnected(provider)

\* a disconnect() has completed with a connect() or a silent reconnect still
\* under way, and no connect() was called since
C30_Witness ==
    /\ provider.mounted /\ provider.disconnects > 0 /\ ~ConnectCalledSince(provider)
    /\ \E i \in 1..Len(provider.calls) :
           /\ provider.calls[i].fn \in {"connect", "checkExistingConnection"}
           /\ provider.calls[i].pc \in {"nautilus.connect", "api"}

(***************************************************************************)
(* pages/Payment: the widget on the page, its clicks, timers and promises  *)
(***************************************************************************)
\* the seconds the clock advances in one run
MaxNow == 3

\* the seconds after page load at which the invoice of the page expires
MaxLifetime == 2

\* the calls of getAssetPrices under way at once
MaxPriceRequests == 1

\* the invoices the page may carry: 10 ERG or 10 SigUSD to an address other
\* than MERCHANT_ADDRESS, with or without an expiry time
Intents ==
    [intentId : {"SP-10291"}, asset : PaymentAssets, amount : {DecToDouble(FALSE, 10, 0)},
     recipientAddress : {MERCHANT},
     expiresAt : {<<>>} \cup {<<k>> : k \in 1..MaxLifetime}]

\* what the user types or pastes into the amount field
AmountTexts ==
    {<<>>, <<".">>, <<"0", ".", "0", "0", "0", "5">>, <<"1", ".", "5">>, <<"1", "e", "5">>}

\* what getAssetPrices resolves with: the fallback prices
PriceAnswers == {[ERG |-> DecToDouble(FALSE, 15, 1), SigUSD |-> DecToDouble(FALSE, 1, 0)]}

\* "11000000000": 11 ERG in NanoErgs
ElevenErg == <<"1", "1">> \o Repeat("0", 9)

\* what a wallet call of the page rejects with: the user refuses
PageWalletThrows == {e \in WalletThrows : e.isError /\ Includes(MessageDetail(e), Rejected)}

\* what the wallet of the page answers to get_utxos: undefined, or one box
\* of 11 ERG
PageUtxoAnswers == {<<>>, <<<<Box(ElevenErg, SENDER)>>>>}

\* the provider of the page with a wallet connected by connect()
ConnectedProvider ==
    contextReturned(
        [connect(MountedProvider(FALSE, [installed |-> TRUE, connected |-> FALSE]))
            EXCEPT !.nautilus.connected = TRUE, !.calls[1].pc = "api", !.timer = FALSE,
                   !.state.isNautilusAvailable = TRUE],
        1, walletContextOf([used |-> <<SENDER>>, unused |-> <<>>,
                            balance |-> ElevenErg]))

\* the widget after useState
WidgetStateInitial(page) ==
    [mounted |-> TRUE, page |-> page,
     paymentIntent |-> IF page.useIntent THEN <<page.intent>> ELSE <<>>,
     paymentState |-> [asset |-> "SigUSD", amount |-> <<>>, usdEquivalent |-> <<>>,
                       loadingPrice |-> FALSE, priceError |-> FALSE],
     invoiceState |-> [expired |-> FALSE, timeRemaining |-> <<>>],
     status |-> "idle", txId |-> <<>>, errorMessage |-> NoMessage,
     prices |-> <<>>, priceRequests |-> 0]

\* fetchPrices() up to its await
fetchPrices(w) ==
    [w EXCEPT !.paymentState.loadingPrice = TRUE, !.paymentState.priceError = FALSE,
              !.priceRequests = @ + 1]

\* fetchPrices() after await getAssetPrices(), which never rejects
pricesFetched(w, priceData) ==
    usdEffect(w, [w EXCEPT !.prices = <<priceData>>, !.paymentState.loadingPrice = FALSE,
                           !.priceRequests = @ - 1], TRUE)

\* the widget after its first render and its mount effects
MountedWidget(page, clock) ==
    usdEffect(WidgetStateInitial(page),
              fetchPrices(intentEffect(WidgetStateInitial(page), clock)), FALSE)

\* the page passes another paymentIntent: the effects that depend on it run
paymentIntentChanged(w, useIntent, clock) ==
    usdEffect(w, intentEffect([w EXCEPT !.page.useIntent = useIntent,
                                        !.paymentIntent = IF useIntent THEN <<w.page.intent>>
                                                          ELSE <<>>],
                              clock), FALSE)

\* the payment form is rendered with its Pay button, asset selector and
\* amount field
FormRendered ==
    /\ widget.mounted /\ provider.mounted
    /\ provider.state.isConnected
    /\ widget.status \notin {"success", "error"}
    /\ ~(isIntentMode(widget) /\ widget.invoiceState.expired)

\* The Pay button is clicked: rendered with the form, disabled by
\* isPayButtonDisabled.
PayClick ==
    /\ FormRendered
    /\ ~isPayButtonDisabled(widget)
    /\ Len(payments) < MaxPayments
    /\ LET after == handlePay(widget, provider.state.wallet, payments)
       IN  /\ widget' = after.widget
           /\ payments' = after.payments
    /\ UNCHANGED <<serverVars, now, provider>>

\* An asset of the selector is clicked: rendered in manual mode, disabled
\* unless the status is idle.
AssetClick ==
    /\ FormRendered
    /\ ~isIntentMode(widget) /\ widget.status = "idle"
    /\ \E asset \in PaymentAssets : widget' = handleAssetChange(widget, asset)
    /\ UNCHANGED <<serverVars, now, provider, payments>>

\* The amount field changes: rendered in manual mode, disabled unless the
\* status is idle.
AmountInput ==
    /\ FormRendered
    /\ ~isIntentMode(widget) /\ widget.status = "idle"
    /\ \E value \in AmountTexts : widget' = handleAmountChange(widget, value)
    /\ UNCHANGED <<serverVars, now, provider, payments>>

\* "New Payment" or "Try Again" is clicked: rendered in the success and
\* error states.
ResetClick ==
    /\ widget.mounted /\ provider.mounted
    /\ provider.state.isConnected
    /\ widget.status \in {"success", "error"}
    /\ widget' = handleReset(widget)
    /\ UNCHANGED <<serverVars, now, provider, payments>>

\* "Invoice Mode" or "Manual Mode" is clicked on the page.
ModeClick ==
    /\ widget.mounted
    /\ widget' = paymentIntentChanged(widget, ~widget.page.useIntent, now)
    /\ UNCHANGED <<serverVars, now, provider, payments>>

\* A second passes on the clock Date.now() reads.
ClockTick ==
    /\ now < MaxNow
    /\ now' = now + 1
    /\ UNCHANGED <<serverVars, provider, widget, payments>>

\* The callback of the countdown interval runs.
TimerTick ==
    /\ widget.mounted
    /\ timerRuns(widget)
    /\ widget' = timerTick(widget, now)
    /\ UNCHANGED <<serverVars, now, provider, payments>>

\* The price refresh interval calls fetchPrices.
PricesRequested ==
    /\ widget.mounted
    /\ widget.priceRequests < MaxPriceRequests
    /\ widget' = fetchPrices(widget)
    /\ UNCHANGED <<serverVars, now, provider, payments>>

\* getAssetPrices() resolves, with fetched or with fallback prices.
PricesReturned ==
    /\ widget.mounted
    /\ widget.priceRequests > 0
    /\ \E priceData \in PriceAnswers : widget' = pricesFetched(widget, priceData)
    /\ UNCHANGED <<serverVars, now, provider, payments>>

\* handlePay after the await of axios.post resolved
verificationResolved(w) == [w EXCEPT !.status = "success"]

\* Mutant of verificationRejected: a failed verification is a failed payment
verificationRejected_Error(w) == handlePayFailed(w, [text |-> "Verification failed"])

\* handlePay after the await of axios.post rejected: the inner catch block
\* warns and the status is set all the same
verificationRejected(w) == [w EXCEPT !.status = "success"]

\* axios.post(`${API_BASE_URL}/payments/verify`, ...) settles and handlePay
\* returns.
VerificationReturned ==
    \E i \in 1..Len(payments) :
        /\ payments[i].caller.kind = "handlePay"
        /\ payments[i].caller.step = "verify"
        /\ payments' = callsUnderWay([payments EXCEPT ![i].caller.step = "end"])
        /\ \/ widget' = verificationResolved(widget)
           \/ widget' = verificationRejected(widget)
        /\ UNCHANGED <<serverVars, now, provider>>

WidgetInit ==
    /\ MIN_CONFIRMATIONS = MinConfirmationsOf(<<>>)
    /\ explorer = <<>>
    /\ requests = <<>>
    /\ converter = NoCall
    /\ now = 0
    /\ provider = ConnectedProvider
    /\ widget \in {MountedWidget([intent |-> intent, useIntent |-> TRUE], 0) : intent \in Intents}
    /\ payments = <<>>

WidgetNext ==
    \/ PayClick
    \/ AssetClick
    \/ AmountInput
    \/ ResetClick
    \/ ModeClick
    \/ ClockTick
    \/ TimerTick
    \/ PricesRequested
    \/ PricesReturned
    \/ UtxosReturned(PageUtxoAnswers)
    \/ ChangeAddressReturned
    \/ SignReturned
    \/ SubmitReturned
    \/ WalletCallFailed(PageWalletThrows)
    \/ VerificationReturned

WidgetSpec == WidgetInit /\ [][WidgetNext]_vars

(***************************************************************************)
(* Properties of the payment page                                          *)
(***************************************************************************)
\* the asset a transaction pays to its first output: ERG when the box
\* carries no token
PaidAsset(tx) == IF tx.outputs[1].assets = <<>> THEN "ERG" ELSE "SigUSD"

\* the call was made by handlePay for an invoice
IsIntentCall(p) == p.caller.kind = "handlePay" /\ p.caller.paymentIntent # <<>>

\* the amount of the transaction's first output is the invoice's amount
PaysIntentAmount(tx, intent) ==
    NumberOfBigInt(BigIntOfString(tx.outputs[1].value).mag)
        = DoubleMul(intent.amount, NumberOfBigInt(BigFromInt(NanoErgsPerErg)))

\* C22: a payment made for a paymentIntent is locked to it: the wallet is
\* asked to pay the intent's amount of the intent's asset to the intent's
\* recipientAddress, and the verification request names the same three.
C22_IntentLocksPayment ==
    \A i \in 1..Len(payments) :
        IsIntentCall(payments[i]) =>
            LET p      == payments[i]
                intent == p.caller.paymentIntent[1]
            IN  /\ p.recipientAddress = intent.recipientAddress
                /\ p.amountErg = intent.amount
                /\ p.signRequests # <<>> =>
                       /\ p.signRequests[1].outputs[1].ergoTree = intent.recipientAddress
                       /\ PaysIntentAmount(p.signRequests[1], intent)
                       /\ PaidAsset(p.signRequests[1]) = intent.asset
                /\ p.caller.verifyRequest # <<>> =>
                       /\ p.caller.verifyRequest[1].merchantAddress = Str(intent.recipientAddress)
                       /\ p.caller.verifyRequest[1].asset = intent.asset
                       /\ p.caller.verifyRequest[1][IF intent.asset = "ERG"
                                                    THEN "expectedAmountErg"
                                                    ELSE "expectedAmountSigUSD"]
                              = Num(intent.amount)

\* the clock has reached the expiry time of the invoice the widget shows
InvoiceExpiredNow ==
    /\ widget.mounted /\ isIntentMode(widget)
    /\ widget.paymentIntent[1].expiresAt # <<>>
    /\ now >= widget.paymentIntent[1].expiresAt[1]

\* an invoice marked expired stays marked
ExpiredStaysExpired == [][widget.mounted /\ widget.invoiceState.expired
                              => widget'.invoiceState.expired]_vars

\* C26: in intent mode, once the clock is at or past paymentIntent.expiresAt
\* a click on Pay starts no sendErgoPayment and leaves the status at error,
\* and an invoice marked expired is never unmarked.
C26_ExpiredInvoiceBlocked ==
    [][/\ InvoiceExpiredNow => Len(payments') <= Len(payments)
       /\ (InvoiceExpiredNow /\ widget.status = "idle" /\ widget'.status # "idle")
              => widget'.status = "error"
       /\ (widget.mounted /\ widget.invoiceState.expired) => widget'.invoiceState.expired]_vars

\* the call i of handlePay has returned in this step
CallEnded(i) ==
    /\ payments[i].caller.kind = "handlePay"
    /\ payments' = SubSeq(payments, 1, i - 1) \o SubSeq(payments, i + 1, Len(payments))

StatusMoves ==
    {<<"idle", "signing">>, <<"signing", "verifying">>, <<"verifying", "success">>,
     <<"idle", "error">>, <<"signing", "error">>, <<"verifying", "error">>,
     <<"success", "idle">>, <<"error", "idle">>}

\* C27: the status moves only idle -> signing -> verifying -> success, or to
\* error, and back to idle by handleReset; it becomes success exactly when
\* the verification request of a resolved sendErgoPayment settles, whatever
\* its outcome, with the transaction id recorded; and when sendErgoPayment
\* rejects it becomes error with no transaction id recorded.
C27_StatusMoves ==
    [][/\ widget.status # widget'.status =>
              /\ <<widget.status, widget'.status>> \in StatusMoves
              /\ widget'.status = "idle" => widget' = handleReset(widget)
              /\ widget'.status = "success" =>
                     \E i \in 1..Len(payments) :
                         /\ CallEnded(i)
                         /\ payments[i].pc = "resolved"
                         /\ widget'.txId = payments[i].result[1].txId
                         /\ widget'.txId # <<>>
       /\ \A i \in 1..Len(payments) :
              CallEnded(i) =>
                  IF payments[i].pc = "resolved"
                  THEN widget'.status = "success"
                  ELSE widget'.status = "error" /\ widget'.txId = <<>>]_vars

\* a payment has succeeded: the wallet returned a transaction id, the
\* verification request settled and the status is success
C27_Witness ==
    /\ widget.mounted
    /\ widget.status = "success"
    /\ widget.txId = TX_INDEXED
    /\ payments = <<>>

\* the calls of sendErgoPayment made by handlePay calls that have not ended
CallsOfWidget == SelectSeq(payments, LAMBDA p : p.caller.kind = "handlePay")

\* C28: at most one sendErgoPayment call of the widget is under way: while a
\* handlePay call has passed validation and not ended, the status is signing
\* or verifying and no other call is started.
C28_OnePaymentInFlight ==
    /\ Len(CallsOfWidget) <= 1
    /\ Len(CallsOfWidget) = 1 => widget.status \in {"signing", "verifying"}

\* a payment is under way and the Pay button is on screen, disabled
C28_Witness ==
    /\ Len(CallsOfWidget) = 1
    /\ FormRendered
    /\ isPayButtonDisabled(widget)
    /\ payments[1].pc = "sign_tx"

====
